---- MODULE Spec2Model ----
(***************************************************************************)
(* A model of the percepta backend (src/server/app.py and                  *)
(* src/server/phase2_vertex.py): the lens resolver, the facts extraction,  *)
(* the two text cleaners and the /api/objects request handler.             *)
(*                                                                         *)
(* Text is modelled as a sequence of characters.  A character is a one     *)
(* character string ("a", " ", "{"); a character that cannot be typed in   *)
(* ASCII is written by its name ("MIDDOT" is U+00B7, "TIMES" is U+00D7).   *)
(* A Python value that need not be a string is a tagged record, see        *)
(* PyNone, PyStr, PyList, PyDict and PyOther.                              *)
(***************************************************************************)
EXTENDS Integers, Sequences, FiniteSets, TLC

VARIABLES
    phase,        \* which step of the component under check has run
    raw_mode,     \* resolve_lens_mode: its argument
    lens_mode,    \* resolve_lens_mode: its result
    content,      \* the chat-completion API's response text
    facts,        \* what generate_equation_facts makes of it: a value or a raise
    value,        \* the cleaners: the value handed to the first pass
    outs,         \* the cleaners: the text each pass so far returned
    req,          \* the request to /api/objects: the handler's place and locals
    calls,        \* the calls made to the two external APIs, in order
    files         \* the files written: path |-> content

(***************************************************************************)
(* Python values and characters                                            *)
(***************************************************************************)
PyNone == [tag |-> "None"]
PyStr(s) == [tag |-> "str", val |-> s]
\* A dict is the sequence of its <<key, value>> items in insertion order.
PyDict(items) == [tag |-> "dict", items |-> items]
\* A number, by its digits.
PyNum(digits) == [tag |-> "num", val |-> digits]
PyList(items) == [tag |-> "list", items |-> items]
\* A value of another type, by what str() and json.dumps() make of it.
PyOther(asStr, asJson) == [tag |-> "other", str |-> asStr, json |-> asJson]
\* The asJson of a value json.dumps() raises TypeError for.
NotSerializable == <<"NOT SERIALIZABLE">>

\* The outcome of a call: the value returned, or the exception raised.
Return(v) == [tag |-> "return", val |-> v]
Raise(exc, msg) == [tag |-> "raise", exc |-> exc, msg |-> msg]
\* No outcome yet: the call has not been made.
Pending == [tag |-> "pending"]

\* The value a variable holds before the step that assigns it has run.
Unset == <<"UNSET">>

LowerLetters ==
    <<"a","b","c","d","e","f","g","h","i","j","k","l","m",
      "n","o","p","q","r","s","t","u","v","w","x","y","z">>

UpperLetters ==
    <<"A","B","C","D","E","F","G","H","I","J","K","L","M",
      "N","O","P","Q","R","S","T","U","V","W","X","Y","Z">>

Range(f) == {f[i] : i \in DOMAIN f}

\* The characters str.strip() and the regular expression \s take for
\* white space; NBSP is U+00A0, which both do.
WhiteSpace == {" ", "\t", "\n", "\r", "NBSP"}

\* str.lower() on one character.
LowerChar(c) ==
    IF c \in Range(UpperLetters)
    THEN LowerLetters[CHOOSE i \in DOMAIN UpperLetters : UpperLetters[i] = c]
    ELSE c

\* str.lower()
Lower(s) == [i \in DOMAIN s |-> LowerChar(s[i])]

\* str.strip(): the text between the first and the last character that is
\* not white space.
Strip(s) ==
    LET keep == {i \in DOMAIN s : s[i] \notin WhiteSpace}
    IN  IF keep = {} THEN <<>>
        ELSE LET first == CHOOSE i \in keep : \A j \in keep : i <= j
                 last  == CHOOSE i \in keep : \A j \in keep : j <= i
             IN  SubSeq(s, first, last)

(***************************************************************************)
(* The lens configuration, app.py lines 44-62 and 464-469                  *)
(***************************************************************************)
mathematician == <<"m","a","t","h","e","m","a","t","i","c","i","a","n">>
physicist     == <<"p","h","y","s","i","c","i","s","t">>
biologist     == <<"b","i","o","l","o","g","i","s","t">>
artist        == <<"a","r","t","i","s","t">>
math          == <<"m","a","t","h">>
physics       == <<"p","h","y","s","i","c","s">>
bio           == <<"b","i","o">>
\* Named by the specification as lenses; the source configures neither.
eco           == <<"e","c","o">>
cultural      == <<"c","u","l","t","u","r","a","l">>

DEFAULT_LENS == mathematician

\* Mutant: the entry of "physicist" names the alias, not the lens.
LENS_ALIASES_reversed ==
    [k \in {math, mathematician, physics, physicist, bio, biologist, artist} |->
        CASE k \in {math, mathematician} -> mathematician
          [] k = physics                 -> physicist
          [] k = physicist               -> physics
          [] k \in {bio, biologist}      -> biologist
          [] OTHER                       -> artist]

LENS_ALIASES ==
    [k \in {math, mathematician, physics, physicist, bio, biologist, artist} |->
        CASE k \in {math, mathematician} -> mathematician
          [] k \in {physics, physicist}  -> physicist
          [] k \in {bio, biologist}      -> biologist
          [] OTHER                       -> artist]

LENS_PROMPTS ==
    [k \in {mathematician, physicist, biologist, artist, math, physics} |->
        CASE k \in {mathematician, math} -> "MATHEMATICIAN_PROMPT"
          [] k \in {physicist, physics}  -> "PHYSICIST_PROMPT"
          [] k = biologist               -> "BIOLOGIST_PROMPT"
          [] OTHER                       -> "ARTIST_PROMPT"]

PHASE1_CONFIG ==
    [k \in {mathematician, physicist, biologist, artist} |->
        CASE k = mathematician ->
                [template |-> "PHASE1_PROMPT", example |-> "MATHEMATICIAN_EXAMPLE"]
          [] k = physicist ->
                [template |-> "PHASE1_PROMPT_PHYSICS", example |-> "PHYSICIST_EXAMPLE"]
          [] k = biologist ->
                [template |-> "PHASE1_PROMPT_BIOLOGY", example |-> "BIOLOGIST_EXAMPLE"]
          [] OTHER ->
                [template |-> "PHASE1_PROMPT_ART", example |-> "ARTIST_EXAMPLE"]]

\* dict.get(key, default)
DictGet(d, key, default) == IF key \in DOMAIN d THEN d[key] ELSE default

\* Python's truth value of an optional string: None and "" are false.
Truthy(v) == v.tag = "str" /\ v.val # <<>>

(***************************************************************************)
(* resolve_lens_mode, app.py lines 472-478                                 *)
(***************************************************************************)
\* Mutant: the candidate is returned without the "in PHASE1_CONFIG" test.
resolve_lens_mode_unchecked(raw) ==
    IF Truthy(raw)
    THEN LET normalized == Lower(Strip(raw.val))
         IN  DictGet(LENS_ALIASES, normalized, normalized)
    ELSE DEFAULT_LENS

\* Mutant: the input is stripped but not lower-cased.
resolve_lens_mode_case_sensitive(raw) ==
    IF Truthy(raw)
    THEN LET normalized == Strip(raw.val)
             candidate  == DictGet(LENS_ALIASES, normalized, normalized)
         IN  IF candidate \in DOMAIN PHASE1_CONFIG THEN candidate ELSE DEFAULT_LENS
    ELSE DEFAULT_LENS

\* Mutant: the alias table is not consulted.
resolve_lens_mode_no_alias(raw) ==
    IF Truthy(raw)
    THEN LET normalized == Lower(Strip(raw.val))
         IN  IF normalized \in DOMAIN PHASE1_CONFIG THEN normalized ELSE DEFAULT_LENS
    ELSE DEFAULT_LENS

resolve_lens_mode(raw) ==
    IF Truthy(raw)
    THEN LET normalized == Lower(Strip(raw.val))
             candidate  == DictGet(LENS_ALIASES, normalized, normalized)
         IN  IF candidate \in DOMAIN PHASE1_CONFIG THEN candidate ELSE DEFAULT_LENS
    ELSE DEFAULT_LENS

(***************************************************************************)
(* Inputs of the lens resolver: every word of LensWords, in each of the    *)
(* letter cases of CaseMasks, between every two paddings of Pads.          *)
(***************************************************************************)
MaxPad == 1

UpperChar(c) ==
    IF c \in Range(LowerLetters)
    THEN UpperLetters[CHOOSE i \in DOMAIN LowerLetters : LowerLetters[i] = c]
    ELSE c

\* The letter cases tried: as written, all capitals, first letter capital,
\* every second letter capital.
CaseMasks == {"lower", "upper", "title", "mixed"}

Recase(s, mask) ==
    [i \in DOMAIN s |->
        CASE mask = "upper" -> UpperChar(s[i])
          [] mask = "title" -> IF i = 1 THEN UpperChar(s[i]) ELSE s[i]
          [] mask = "mixed" -> IF i % 2 = 0 THEN UpperChar(s[i]) ELSE s[i]
          [] OTHER          -> s[i]]

\* White space of at most n characters.
PadsUpTo(n) == UNION {[1..k -> {" ", "\t", "\n"}] : k \in 0..n}
Pads == PadsUpTo(MaxPad)

Variant(word, left, right, mask) == left \o Recase(word, mask) \o right

\* "art" is no alias of artist; "a b" has white space inside; the empty word
\* gives the empty and the all-blank inputs.
LensWords ==
    DOMAIN LENS_ALIASES \cup
    {eco, cultural, <<"a","r","t">>, <<"a"," ","b">>, <<"m","a","t","h","s">>, <<>>}

RawModes ==
    {PyNone} \cup
    {PyStr(Variant(w, l, r, m)) : w \in LensWords, l \in Pads, r \in Pads, m \in CaseMasks}

FactsIdle == content = <<>> /\ facts = Pending
\* No request to /api/objects is in hand.
EndpointIdle == req = [pc |-> "idle"] /\ calls = <<>> /\ files = <<>>

LensInit ==
    /\ phase = "lens"
    /\ raw_mode \in RawModes
    /\ lens_mode = Unset
    /\ FactsIdle
    /\ value = PyNone
    /\ outs = <<>>
    /\ EndpointIdle

\* One call of resolve_lens_mode.
Resolve ==
    /\ phase = "lens"
    /\ lens_mode = Unset
    /\ lens_mode' = resolve_lens_mode(raw_mode)
    /\ UNCHANGED <<phase, raw_mode, content, facts, value, outs, req, calls, files>>

vars == <<phase, raw_mode, lens_mode, content, facts, value, outs, req, calls, files>>

SpecLens == LensInit /\ [][Resolve]_vars

(***************************************************************************)
(* json.loads on the characters a response is drawn from.  The scanner is  *)
(* the one of Python's json module: white space between tokens, an object  *)
(* of "key": value members, strings without escapes, numbers of digits,    *)
(* a later duplicate key replacing an earlier one, and nothing but white   *)
(* space after the value.  The characters drawn hold no backslash, no      *)
(* bracket and no letter of true, false, null, NaN or Infinity.            *)
(***************************************************************************)
JsonWs == {" ", "\t", "\n", "\r"}
Digits == {"1"}

ScanFail == [ok |-> FALSE]
ScanOk(v, n) == [ok |-> TRUE, val |-> v, next |-> n]

\* The first position from i on that holds no white space (Len(s)+1 if none).
SkipWs(s, i) ==
    LET stop == {j \in i..Len(s) : s[j] \notin JsonWs}
    IN  IF stop = {} THEN Len(s) + 1
        ELSE CHOOSE j \in stop : \A k \in stop : j <= k

\* s[i] is the opening quote: the string runs to the next quote.
ScanString(s, i) ==
    LET close == {j \in (i+1)..Len(s) : s[j] = "\""}
    IN  IF close = {} THEN ScanFail
        ELSE LET j == CHOOSE j \in close : \A k \in close : j <= k
             IN  ScanOk(PyStr(SubSeq(s, i + 1, j - 1)), j + 1)

\* s[i] is a digit: the number is the run of digits from i.
ScanNumber(s, i) ==
    LET stop == {j \in i..Len(s) : s[j] \notin Digits}
        end  == IF stop = {} THEN Len(s) + 1
                ELSE CHOOSE j \in stop : \A k \in stop : j <= k
    IN  ScanOk(PyNum(SubSeq(s, i, end - 1)), end)

\* d[key] = v: a key already there keeps its place and takes the new value.
DictSet(items, key, v) ==
    IF \E i \in DOMAIN items : items[i][1] = key
    THEN [i \in DOMAIN items |-> IF items[i][1] = key THEN <<key, v>> ELSE items[i]]
    ELSE Append(items, <<key, v>>)

RECURSIVE ScanValue(_, _)
RECURSIVE ScanMembers(_, _, _)

\* i is the position after the object's "{".
ScanObject(s, i) ==
    LET j == SkipWs(s, i)
    IN  IF j > Len(s) THEN ScanFail
        ELSE IF s[j] = "}" THEN ScanOk(PyDict(<<>>), j + 1)
        ELSE ScanMembers(s, j, <<>>)

\* j is the position where a member's key must open.
ScanMembers(s, j, items) ==
    IF j > Len(s) \/ s[j] # "\"" THEN ScanFail
    ELSE
    LET key == ScanString(s, j)
    IN  IF ~key.ok THEN ScanFail
        ELSE
        LET colon == SkipWs(s, key.next)
        IN  IF colon > Len(s) \/ s[colon] # ":" THEN ScanFail
            ELSE
            LET v == ScanValue(s, SkipWs(s, colon + 1))
            IN  IF ~v.ok THEN ScanFail
                ELSE
                LET after == SkipWs(s, v.next)
                    items2 == DictSet(items, key.val.val, v.val)
                IN  IF after > Len(s) THEN ScanFail
                    ELSE IF s[after] = "}" THEN ScanOk(PyDict(items2), after + 1)
                    ELSE IF s[after] = "," THEN ScanMembers(s, SkipWs(s, after + 1), items2)
                    ELSE ScanFail

ScanValue(s, i) ==
    IF i > Len(s) THEN ScanFail
    ELSE IF s[i] = "\"" THEN ScanString(s, i)
    ELSE IF s[i] = "{" THEN ScanObject(s, i + 1)
    ELSE IF s[i] \in Digits THEN ScanNumber(s, i)
    ELSE ScanFail

\* json.loads(s): the value, or the raise of json.JSONDecodeError.
json_loads(s) ==
    LET v == ScanValue(s, SkipWs(s, 1))
    IN  IF ~v.ok THEN Raise("JSONDecodeError", "Expecting value")
        ELSE IF SkipWs(s, v.next) <= Len(s) THEN Raise("JSONDecodeError", "Extra data")
        ELSE Return(v.val)

(***************************************************************************)
(* generate_equation_facts, app.py lines 628-633: the response text to the *)
(* parsed object                                                           *)
(***************************************************************************)
NoMatch == <<"NO MATCH">>

Positions(s, c) == {i \in DOMAIN s : s[i] = c}
MinOf(S) == CHOOSE i \in S : \A j \in S : i <= j
MaxOf(S) == CHOOSE i \in S : \A j \in S : j <= i

\* Mutant: the lazy pattern \{.*?\}, which ends the match at the first "}"
\* after the first "{".
re_search_braces_lazy(s) ==
    LET opens == Positions(s, "{")
    IN  IF opens = {} THEN NoMatch
        ELSE LET closes == {j \in Positions(s, "}") : j > MinOf(opens)}
             IN  IF closes = {} THEN NoMatch
                 ELSE SubSeq(s, MinOf(opens), MinOf(closes))

\* Mutant: the match has to start the text, as re.match would make it.
re_search_braces_anchored(s) ==
    LET closes == {j \in Positions(s, "}") : j > 1}
    IN  IF s = <<>> \/ s[1] # "{" \/ closes = {} THEN NoMatch
        ELSE SubSeq(s, 1, MaxOf(closes))

\* re.search(r"\{.*\}", s, re.DOTALL): the leftmost match starts at the first
\* "{" that has a "}" after it, which is the first "{" of s if any has; the
\* greedy .* with DOTALL then runs to the last "}" of s.
re_search_braces(s) ==
    LET opens == Positions(s, "{")
    IN  IF opens = {} THEN NoMatch
        ELSE LET closes == {j \in Positions(s, "}") : j > MinOf(opens)}
             IN  IF closes = {} THEN NoMatch
                 ELSE SubSeq(s, MinOf(opens), MaxOf(closes))

\* Lines 628-633 of generate_equation_facts.
extract_facts(message_content) ==
    LET text  == Strip(message_content)
        match == re_search_braces(text)
    IN  IF match = NoMatch
        THEN Raise("ValueError", "Model did not return valid JSON.")
        ELSE json_loads(match)

(***************************************************************************)
(* Inputs of the facts extraction: every text of at most MaxText           *)
(* characters, and every sample object between two pieces of prose of at   *)
(* most MaxProse characters each.                                          *)
(***************************************************************************)
MaxText == 4
MaxProse == 2

SeqsUpTo(S, n) == UNION {[1..k -> S] : k \in 0..n}

JsonChars == {"{", "}", "\"", ":", ",", "1", "p", " "}
ProseChars == {"p", " ", "{", "}"}

SampleObjects ==
    { <<"{", "}">>,
      <<"{", "\"", "p", "\"", ":", "1", "}">>,
      <<"{", "\"", "p", "\"", ":", "\"", "}", "\"", "}">>,
      <<"{", "\"", "p", "\"", ":", " ", "{", "}", "}">>,
      <<"{", "\"", "p", "\"", ":", "1", ",", "\"", "p", "\"", ":", "\"", "{", "\"", "}">> }

Contents ==
    SeqsUpTo(JsonChars, MaxText) \cup
    {pre \o obj \o post :
        pre \in SeqsUpTo(ProseChars, MaxProse),
        obj \in SampleObjects,
        post \in SeqsUpTo(ProseChars, MaxProse)}

LensIdle == raw_mode = PyNone /\ lens_mode = Unset
CleanIdle == value = PyNone /\ outs = <<>>

FactsInit ==
    /\ phase = "facts"
    /\ content \in Contents
    /\ facts = Pending
    /\ LensIdle
    /\ CleanIdle
    /\ EndpointIdle

\* The tail of generate_equation_facts on the response received.
Extract ==
    /\ phase = "facts"
    /\ facts = Pending
    /\ facts' = extract_facts(content)
    /\ UNCHANGED <<phase, content, raw_mode, lens_mode, value, outs, req, calls, files>>

SpecFacts == FactsInit /\ [][Extract]_vars

(***************************************************************************)
(* _ensure_text, app.py lines 487-497                                      *)
(***************************************************************************)
\* sep.join(parts)
RECURSIVE Join(_, _)
Join(parts, sep) ==
    IF parts = <<>> THEN <<>>
    ELSE IF Len(parts) = 1 THEN parts[1]
    ELSE parts[1] \o sep \o Join(Tail(parts), sep)

\* json.dumps escapes the quote, the backslash and the control characters.
JsonEscape(s) ==
    Join([i \in DOMAIN s |->
            CASE s[i] = "\"" -> <<"\\", "\"">>
              [] s[i] = "\\" -> <<"\\", "\\">>
              [] s[i] = "\n" -> <<"\\", "n">>
              [] s[i] = "\t" -> <<"\\", "t">>
              [] s[i] = "\r" -> <<"\\", "r">>
              [] OTHER       -> <<s[i]>>], <<>>)

RECURSIVE Serializable(_)
Serializable(v) ==
    CASE v.tag = "dict"  -> \A i \in DOMAIN v.items : Serializable(v.items[i][2])
      [] v.tag = "list"  -> \A i \in DOMAIN v.items : Serializable(v.items[i])
      [] v.tag = "other" -> v.json # NotSerializable
      [] OTHER           -> TRUE

\* The text of json.dumps(v, ensure_ascii=False) for a serializable v.
RECURSIVE JsonText(_)
JsonText(v) ==
    CASE v.tag = "None"  -> <<"n", "u", "l", "l">>
      [] v.tag = "str"   -> <<"\"">> \o JsonEscape(v.val) \o <<"\"">>
      [] v.tag = "num"   -> v.val
      [] v.tag = "other" -> v.json
      [] v.tag = "list"  ->
            <<"[">> \o Join([i \in DOMAIN v.items |-> JsonText(v.items[i])], <<",", " ">>)
                    \o <<"]">>
      [] v.tag = "dict"  ->
            <<"{">> \o Join([i \in DOMAIN v.items |->
                                <<"\"">> \o JsonEscape(v.items[i][1]) \o <<"\"", ":", " ">>
                                \o JsonText(v.items[i][2])], <<",", " ">>)
                    \o <<"}">>

json_dumps(v) ==
    IF Serializable(v) THEN Return(JsonText(v))
    ELSE Raise("TypeError", "Object is not JSON serializable")

\* repr(v) and str(v), for strings whose characters print as themselves.
RECURSIVE Repr(_)
Repr(v) ==
    CASE v.tag = "None"  -> <<"N", "o", "n", "e">>
      [] v.tag = "str"   ->
            IF "'" \in Range(v.val) /\ "\"" \notin Range(v.val)
            THEN <<"\"">> \o v.val \o <<"\"">>
            ELSE <<"'">> \o v.val \o <<"'">>
      [] v.tag = "num"   -> v.val
      [] v.tag = "other" -> v.str
      [] v.tag = "list"  ->
            <<"[">> \o Join([i \in DOMAIN v.items |-> Repr(v.items[i])], <<",", " ">>)
                    \o <<"]">>
      [] v.tag = "dict"  ->
            <<"{">> \o Join([i \in DOMAIN v.items |->
                                Repr(PyStr(v.items[i][1])) \o <<":", " ">>
                                \o Repr(v.items[i][2])], <<",", " ">>)
                    \o <<"}">>

py_str(v) == IF v.tag = "str" THEN v.val ELSE Repr(v)

\* Mutant: None falls through to str(value), which is "None".
RECURSIVE ensure_text_none_as_str(_)
ensure_text_none_as_str(v) ==
    CASE v.tag = "str"  -> v.val
      [] v.tag = "list" ->
            Join([i \in DOMAIN v.items |-> ensure_text_none_as_str(v.items[i])], <<" ">>)
      [] v.tag = "dict" ->
            LET dumped == json_dumps(v)
            IN  IF dumped.tag = "return" THEN dumped.val ELSE py_str(v)
      [] OTHER -> py_str(v)

RECURSIVE ensure_text(_)
ensure_text(v) ==
    CASE v.tag = "str"  -> v.val
      [] v.tag = "list" ->
            Join([i \in DOMAIN v.items |-> ensure_text(v.items[i])], <<" ">>)
      [] v.tag = "dict" ->
            LET dumped == json_dumps(v)
            IN  IF dumped.tag = "return" THEN dumped.val ELSE py_str(v)
      [] OTHER -> IF v = PyNone THEN <<>> ELSE py_str(v)

(***************************************************************************)
(* String operations of the cleaners                                       *)
(***************************************************************************)
\* The characters that are not ASCII, by name.
NonAscii ==
    {"MIDDOT", "TIMES", "DIVIDE", "SQRT", "ENDASH", "EMDASH", "LDQUO", "RDQUO",
     "LSQUO", "RSQUO", "BULLET", "NBSP", "SUP2", "SUP3", "THETA", "DEGREE",
     "PLUSMINUS", "APPROX", "PI", "MUCHLESS"}

\* s[lo..hi] with every character bad replaced by the text good.
RECURSIVE ReplaceRange(_, _, _, _, _)
ReplaceRange(s, lo, hi, bad, good) ==
    IF lo > hi THEN <<>>
    ELSE IF lo = hi THEN (IF s[lo] = bad THEN good ELSE <<s[lo]>>)
    ELSE LET mid == (lo + hi) \div 2
         IN  ReplaceRange(s, lo, mid, bad, good) \o ReplaceRange(s, mid + 1, hi, bad, good)

\* s.replace(bad, good) for a one-character bad.
StrReplace(s, bad, good) ==
    IF bad \notin Range(s) THEN s ELSE ReplaceRange(s, 1, Len(s), bad, good)

\* for bad, good in replacements.items(): text = text.replace(bad, good),
\* from the k-th item on.
\* An item whose bad is not in the text leaves the text as it is, so the
\* loop goes on from the next item whose bad is in it.
RECURSIVE ReplaceItems(_, _, _)
ReplaceItems(s, table, k) ==
    LET found == {n \in k..Len(table) : table[n][1] \in Range(s)}
    IN  IF found = {} THEN s
        ELSE LET n == MinOf(found)
             IN  ReplaceItems(StrReplace(s, table[n][1], table[n][2]), table, n + 1)

\* The loop of replacements over s[lo..hi].  Every bad of the tables is one
\* character, so each replace rewrites the characters of its text one by
\* one, and the loop over a text is the loop over each of its characters,
\* the results joined in order.
RECURSIVE ReplaceEachRange(_, _, _, _)
ReplaceEachRange(s, table, lo, hi) ==
    IF lo > hi THEN <<>>
    ELSE IF lo = hi THEN ReplaceItems(<<s[lo]>>, table, 1)
    ELSE LET mid == (lo + hi) \div 2
         IN  ReplaceEachRange(s, table, lo, mid) \o ReplaceEachRange(s, table, mid + 1, hi)

ReplaceEach(s, table, k) == ReplaceEachRange(s, table, 1, Len(s))

\* s with each run of marked characters replaced by one space: the first
\* character of a run gives the space, the others give nothing.
ReplaceRuns(s, marked) ==
    LET Kept(i) == i \notin marked \/ (i - 1) \notin marked
        kept    == SelectSeq([i \in 1..Len(s) |-> i], Kept)
    IN  [k \in 1..Len(kept) |-> IF kept[k] \in marked THEN " " ELSE s[kept[k]]]

\* re.sub(r"\s+", " ", s)
CollapseSpace(s) ==
    ReplaceRuns(s, {i \in DOMAIN s : s[i] \in WhiteSpace})

\* s.encode("ascii", "ignore").decode("ascii")
IsAscii(c) == c \notin NonAscii
AsciiOnly(s) == SelectSeq(s, IsAscii)

(***************************************************************************)
(* clean_text_for_prompt, app.py lines 500-522                             *)
(***************************************************************************)
PromptReplacements ==
    << <<"MIDDOT", <<"TIMES">>>>,
       <<"x",      <<"TIMES">>>>,
       <<"X",      <<"TIMES">>>>,
       <<"DIVIDE", <<"DIVIDE">>>>,
       <<"^",      <<"^">>>>,
       <<"SQRT",   <<"SQRT">>>>,
       <<"ENDASH", <<"-">>>>,
       <<"EMDASH", <<"-">>>>,
       <<"LDQUO",  <<"\"">>>>,
       <<"RDQUO",  <<"\"">>>>,
       <<"LSQUO",  <<"'">>>>,
       <<"RSQUO",  <<"'">>>>,
       <<"BULLET", <<"-">>>> >>

\* Mutant: the non-ASCII characters are dropped before the white space is
\* collapsed and stripped.
clean_text_for_prompt_ascii_first(v) ==
    LET text == ensure_text(v)
    IN  IF text = <<>> THEN <<>>
        ELSE Strip(CollapseSpace(AsciiOnly(ReplaceEach(text, PromptReplacements, 1))))

clean_text_for_prompt(v) ==
    LET text == ensure_text(v)
    IN  IF text = <<>> THEN <<>>
        ELSE AsciiOnly(Strip(CollapseSpace(ReplaceEach(text, PromptReplacements, 1))))

(***************************************************************************)
(* html.unescape, on the named character references of EntityTable (a part *)
(* of html.entities.html5; the characters drawn hold no "#", so no numeric *)
(* reference occurs).  A reference is "&", then up to 32 characters other  *)
(* than tab, newline, form feed, space, "<", "&", "#" and ";", then an     *)
(* optional ";".  A name the table does not hold is looked up by its       *)
(* longest prefix of two characters or more, the rest being kept; a        *)
(* reference that names nothing is left as it is.                          *)
(***************************************************************************)
EntityTable ==
    [n \in { <<"l","t">>, <<"l","t",";">>, <<"l","l",";">>,
             <<"a","m","p">>, <<"a","m","p",";">>,
             <<"d","e","g">>, <<"d","e","g",";">> } |->
        CASE n = <<"l","l",";">> -> "MUCHLESS"
          [] n[1] = "l"          -> "<"
          [] n[1] = "a"          -> "&"
          [] OTHER               -> "DEGREE"]

NameStops == {"\t", "\n", " ", "<", "&", "#", ";"}
MaxEntityName == 32

\* The end of the reference that starts with the "&" at i (i itself if
\* no name follows).
RefEnd(s, i) ==
    LET stops == {j \in (i+1)..Len(s) : s[j] \in NameStops}
        limit == IF stops = {} THEN Len(s) + 1 ELSE MinOf(stops)
        last  == IF limit - 1 - i > MaxEntityName THEN i + MaxEntityName ELSE limit - 1
    IN  IF last = i THEN i
        ELSE IF last < Len(s) /\ s[last + 1] = ";" THEN last + 1 ELSE last

\* replace_charref on the reference's text without its "&".
ReplaceCharref(name) ==
    IF name \in DOMAIN EntityTable THEN <<EntityTable[name]>>
    ELSE LET known == {x \in 2..(Len(name) - 1) : SubSeq(name, 1, x) \in DOMAIN EntityTable}
         IN  IF known = {} THEN <<"&">> \o name
             ELSE LET x == MaxOf(known)
                  IN  <<EntityTable[SubSeq(name, 1, x)]>> \o SubSeq(name, x + 1, Len(name))

\* The text s[j..stop] unescaped, where s[j] is "&" and no later character
\* of it is: a reference's name holds no "&", so no reference reaches past
\* the next "&".
UnescapeAt(s, j, stop) ==
    LET end == RefEnd(s, j)
    IN  IF end = j THEN SubSeq(s, j, stop)
        ELSE ReplaceCharref(SubSeq(s, j + 1, end)) \o SubSeq(s, end + 1, stop)

\* The pieces of s that start at the lo-th to the hi-th "&", unescaped.
RECURSIVE UnescapeFrom(_, _, _, _)
UnescapeFrom(s, amps, lo, hi) ==
    IF lo > hi THEN <<>>
    ELSE IF lo = hi
         THEN UnescapeAt(s, amps[lo],
                         IF lo = Len(amps) THEN Len(s) ELSE amps[lo + 1] - 1)
    ELSE LET mid == (lo + hi) \div 2
         IN  UnescapeFrom(s, amps, lo, mid) \o UnescapeFrom(s, amps, mid + 1, hi)

\* html.unescape(s): every match of the reference pattern is replaced, from
\* the left, matches not overlapping.
html_unescape(s) ==
    IF "&" \notin Range(s) THEN s
    ELSE LET IsAmp(i) == s[i] = "&"
             amps == SelectSeq([i \in 1..Len(s) |-> i], IsAmp)
         IN  SubSeq(s, 1, amps[1] - 1) \o UnescapeFrom(s, amps, 1, Len(amps))

(***************************************************************************)
(* clean_explanation, app.py lines 524-562                                 *)
(***************************************************************************)
DisplayReplacements ==
    << <<"SUP2",      <<"^", "2">>>>,
       <<"SUP3",      <<"^", "3">>>>,
       <<"MIDDOT",    <<"*">>>>,
       <<"TIMES",     <<"*">>>>,
       <<"DIVIDE",    <<"/">>>>,
       <<"ENDASH",    <<"-">>>>,
       <<"EMDASH",    <<"-">>>>,
       <<"SQRT",      <<"s", "q", "r", "t">>>>,
       <<"THETA",     <<"t", "h", "e", "t", "a">>>>,
       <<"DEGREE",    <<" ", "d", "e", "g", "r", "e", "e", "s">>>>,
       <<"PLUSMINUS", <<"+", "/", "-">>>>,
       <<"APPROX",    <<"~">>>> >>

\* The characters of the class [a-zA-Z0-9.,:;!?()'\"*/^~+= _-].
Whitelist ==
    Range(LowerLetters) \cup Range(UpperLetters) \cup
    {"0", "1", "2", "3", "4", "5", "6", "7", "8", "9"} \cup
    {".", ",", ":", ";", "!", "?", "(", ")", "'", "\"", "*", "/", "^", "~", "+",
     "=", " ", "_", "-"}

\* re.sub(r"[^a-zA-Z0-9.,:;!?()'\"*/^~+= _-]+", " ", s)
\* Mutant: the characters outside the whitelist are deleted, no space being
\* put in their place.
StripResidue_delete(s) == SelectSeq(s, LAMBDA c : c \in Whitelist)

StripResidue(s) ==
    ReplaceRuns(s, {i \in DOMAIN s : s[i] \notin Whitelist})

MaxDisplay == 250
Ellipsis == <<".", ".", ".">>

\* Mutant: the cut is made at MaxDisplay less the marker's length, and the
\* text as cut is what the test of a later pass sees.
Truncate_short(s) ==
    IF Len(s) > MaxDisplay - Len(Ellipsis)
    THEN SubSeq(s, 1, MaxDisplay - Len(Ellipsis)) \o Ellipsis
    ELSE s

\* Mutant: the marker is added to the whole text, which is not cut.
Truncate_uncut(s) == IF Len(s) > MaxDisplay THEN s \o Ellipsis ELSE s

\* Lines 559-560: if len(text) > 250: text = text[:250] + "...".
Truncate(s) ==
    IF Len(s) > MaxDisplay THEN SubSeq(s, 1, MaxDisplay) \o Ellipsis ELSE s

\* Lines 533-556: the text before the truncation.
DisplayBody(text) ==
    Strip(CollapseSpace(StripResidue(
        ReplaceEach(html_unescape(text), DisplayReplacements, 1))))

clean_explanation(v) ==
    LET text == ensure_text(v)
    IN  IF text = <<>> THEN <<>> ELSE Truncate(DisplayBody(text))

(***************************************************************************)
(* Inputs of the cleaners: every text of at most MaxClean characters of    *)
(* the cleaner's alphabet, the sample texts, texts of about MaxDisplay     *)
(* characters, and values that are no strings.                             *)
(***************************************************************************)
MaxClean == 4
Slack == 2

PromptChars == {"a", "x", " ", "\n", "MIDDOT", "PI"}
DisplayChars == {"l", "t", " ", "&", ";", "<", "DEGREE"}

\* The explanation text of the specification's scenario C.
scenario_c_text ==
    <<"A","r","e","a"," ","="," ","PI","MIDDOT","r","SUP2"," ","(",
    "PLUSMINUS","5","%",")">>

\* A text that holds each glyph of the prompt cleaner's table.
glyph_text ==
    <<"a","MIDDOT","b","TIMES","c"," ","LDQUO","q","RDQUO"," ","LSQUO","s",
    "RSQUO"," ","1","ENDASH","2","EMDASH","3"," ","BULLET","d">>

SampleTexts ==
    { scenario_c_text,
      glyph_text,
      <<"&","a","m","p",";","l","t",";">>,
      <<"&","a","m","p",";","d","e","g",";">>,
      <<"5","&","d","e","g","x">>,
      <<"&","l","t","l">>,
      <<"b","o","x">>,
      <<"a"," ","x"," ","b">>,
      <<"a","\t","NBSP","b">>,
      <<"r","SUP2"," ","PLUSMINUS","5","%">>,
      <<"LDQUO","a","RDQUO"," ","BULLET"," ","SQRT","2">>,
      <<"a","ENDASH","b"," ","EMDASH"," ","LSQUO","c","RSQUO">> }

\* The text of length n that repeats unit.
Cycle(unit, n) == [i \in 1..n |-> unit[((i - 1) % Len(unit)) + 1]]

LongUnits == { <<"l">>, <<"l", " ">>, <<"t", "DEGREE">>, <<"l", "<", "&">>, <<"x", ".", "\n">> }
LongEnds == { <<>>, <<" ">>, <<"SUP2">> }

LongTexts ==
    {pre \o Cycle(u, n) \o post :
        pre \in LongEnds, post \in LongEnds, u \in LongUnits,
        n \in (MaxDisplay - Slack - 1)..(MaxDisplay + Len(Ellipsis) + Slack)}

NonStrings ==
    { PyNone,
      PyList(<<>>),
      PyList(<<PyNone>>),
      PyList(<<PyList(<<>>), PyList(<<>>)>>),
      PyList(<<PyStr(<<"a">>), PyNum(<<"1">>), PyNone, PyStr(<<"x", "SUP2">>)>>),
      PyDict(<<>>),
      PyDict(<< <<<<"k">>, PyStr(<<"MIDDOT", "\"">>)>>, <<<<"n">>, PyNum(<<"1">>)>> >>),
      PyDict(<< <<<<"k">>, PyOther(<<"{", "1", "}">>, NotSerializable)>> >>),
      PyNum(<<"0">>),
      PyOther(<<"T", "r", "u", "e">>, <<"t", "r", "u", "e">>),
      PyOther(<<"{", "1", "}">>, NotSerializable) }

CleanTexts(cleaner) ==
    SeqsUpTo(IF cleaner = "prompt" THEN PromptChars ELSE DisplayChars, MaxClean)
    \cup SampleTexts \cup LongTexts

CleanValues(cleaner) == {PyStr(t) : t \in CleanTexts(cleaner)} \cup NonStrings

CleanInit ==
    /\ phase \in {"prompt", "display"}
    /\ value \in CleanValues(phase)
    /\ outs = <<>>
    /\ LensIdle
    /\ FactsIdle
    /\ EndpointIdle

\* What the next pass is given: the value, then the text of the pass before.
Passes == 2
PassInput == IF outs = <<>> THEN value ELSE PyStr(outs[Len(outs)])

\* One pass of clean_text_for_prompt.
CleanPrompt ==
    /\ phase = "prompt"
    /\ Len(outs) < Passes
    /\ outs' = Append(outs, clean_text_for_prompt(PassInput))
    /\ UNCHANGED <<phase, value, raw_mode, lens_mode, content, facts, req, calls, files>>

\* One pass of clean_explanation.
CleanDisplay ==
    /\ phase = "display"
    /\ Len(outs) < Passes
    /\ outs' = Append(outs, clean_explanation(PassInput))
    /\ UNCHANGED <<phase, value, raw_mode, lens_mode, content, facts, req, calls, files>>

SpecClean == CleanInit /\ [][CleanPrompt \/ CleanDisplay]_vars

(***************************************************************************)
(* sanitize_slug and persist_uploaded_image, app.py lines 565-595          *)
(***************************************************************************)
SlugChars ==
    Range(LowerLetters) \cup Range(UpperLetters) \cup
    {"0", "1", "2", "3", "4", "5", "6", "7", "8", "9", "_", "-"}

\* s[lo..hi] with each run of marked characters replaced by one "-".
RECURSIVE DashRuns(_, _, _, _)
DashRuns(s, marked, lo, hi) ==
    IF lo > hi THEN <<>>
    ELSE IF lo = hi
         THEN (IF lo \notin marked THEN <<s[lo]>>
               ELSE IF lo - 1 \in marked THEN <<>> ELSE <<"-">>)
    ELSE LET mid == (lo + hi) \div 2
         IN  DashRuns(s, marked, lo, mid) \o DashRuns(s, marked, mid + 1, hi)

\* str.strip("-")
StripDashes(s) ==
    LET keep == {i \in DOMAIN s : s[i] # "-"}
    IN  IF keep = {} THEN <<>> ELSE SubSeq(s, MinOf(keep), MaxOf(keep))

fallback_object == <<"o","b","j","e","c","t">>

\* sanitize_slug(value) with the default fallback "object".
sanitize_slug(v) ==
    LET text      == IF v = <<>> THEN fallback_object ELSE v
        sanitized == StripDashes(
                        DashRuns(text, {i \in DOMAIN text : text[i] \notin SlugChars},
                                 1, Len(text)))
    IN  IF sanitized = <<>> THEN fallback_object ELSE sanitized

\* The first n characters of s: s[:n].
Take(s, n) == SubSeq(s, 1, IF Len(s) < n THEN Len(s) ELSE n)

Base64Chars ==
    Range(LowerLetters) \cup Range(UpperLetters) \cup
    {"0", "1", "2", "3", "4", "5", "6", "7", "8", "9", "+", "/"}

\* Mutant: the text is decoded without being validated.
b64decode_unvalidated(encoded) == Return(<<"BYTES", encoded>>)

\* base64.b64decode(encoded, validate=True), as CPython 3.11 decodes in
\* strict mode: a text that is not ASCII raises ValueError; otherwise the
\* text must be base64 digits followed only by "=", with one "=" after a
\* last group of three digits, two after a last group of two, and any
\* number after whole groups of four.
b64decode(encoded) ==
    LET pads   == {i \in DOMAIN encoded : encoded[i] = "="}
        digits == Len(encoded) - Cardinality(pads)
        given  == Cardinality(pads)
    IN  IF \E i \in DOMAIN encoded : ~IsAscii(encoded[i])
        THEN Raise("ValueError", "string argument should contain only ASCII characters")
        ELSE IF \/ \E i \in pads : i <= digits
                \/ \E i \in 1..digits : encoded[i] \notin Base64Chars
        THEN Raise("binascii.Error", "Only base64 data is allowed")
        ELSE IF \/ digits % 4 = 0 /\ (given = 0 \/ digits > 0)
                \/ digits % 4 = 3 /\ given = 1
                \/ digits % 4 = 2 /\ given = 2
        THEN Return(<<"BYTES", encoded>>)
        ELSE Raise("binascii.Error", "Incorrect padding")

\* s.find(sub) for sub in s: the first place where sub starts in s, 0 if
\* there is none.
Find(s, sub) ==
    LET at == {i \in 1..(Len(s) - Len(sub) + 1) : SubSeq(s, i, i + Len(sub) - 1) = sub}
    IN  IF at = {} THEN 0 ELSE MinOf(at)

ExtensionChars ==
    Range(LowerLetters) \cup Range(UpperLetters) \cup
    {"0", "1", "2", "3", "4", "5", "6", "7", "8", "9", ".", "+", "-"}

image_slash == <<"i","m","a","g","e","/">>
png == <<"p","n","g">>
jpeg == <<"j","p","e","g">>
jpg == <<"j","p","g">>

\* s.replace("jpeg", "jpg"), every occurrence from the left.
RECURSIVE ReplaceJpeg(_)
ReplaceJpeg(s) ==
    LET at == Find(s, jpeg)
    IN  IF at = 0 THEN s
        ELSE SubSeq(s, 1, at - 1) \o jpg \o ReplaceJpeg(SubSeq(s, at + Len(jpeg), Len(s)))

\* Lines 581-586: "png", or what re.search(r"image/([a-zA-Z0-9.+-]+)", header)
\* captures (the first "image/" that a character of the class follows), with
\* "jpeg" replaced by "jpg".
image_extension(header) ==
    LET starts == {i \in 1..(Len(header) - Len(image_slash)) :
                      /\ SubSeq(header, i, i + Len(image_slash) - 1) = image_slash
                      /\ header[i + Len(image_slash)] \in ExtensionChars}
    IN  IF starts = {} THEN ReplaceJpeg(png)
        ELSE LET from == MinOf(starts) + Len(image_slash)
                 stop == {j \in from..Len(header) : header[j] \notin ExtensionChars}
                 to   == IF stop = {} THEN Len(header) ELSE MinOf(stop) - 1
             IN  ReplaceJpeg(SubSeq(header, from, to))

uploads == <<"u","p","l","o","a","d","s">>
\* Line 15: os.path.join(os.getcwd(), "uploads"); CWD stands for the working
\* directory.
UPLOAD_FOLDER == <<"CWD", "/">> \o uploads
SlugLimit == 20

\* Mutant: the file name is the label's slug alone.
upload_filename_label_only(client_object_id, label, extension) ==
    sanitize_slug(label) \o <<".">> \o extension

\* Line 589: the name of the uploaded file.
upload_filename(client_object_id, label, extension) ==
    Take(sanitize_slug(client_object_id), SlugLimit) \o <<"_">> \o sanitize_slug(label)
    \o <<".">> \o extension

\* persist_uploaded_image: the raise, or the file written and what is
\* returned; HOST stands for request.host_url without its last "/".
persist_uploaded_image(image_base64, client_object_id, label) ==
    IF image_base64 = <<>> THEN
        [outcome |-> Raise("ValueError", "Missing imageBase64 payload.")]
    ELSE
    LET comma   == Find(image_base64, <<",">>)
        header  == IF comma = 0 THEN <<>> ELSE SubSeq(image_base64, 1, comma - 1)
        encoded == IF comma = 0 THEN image_base64
                   ELSE SubSeq(image_base64, comma + 1, Len(image_base64))
        binary  == b64decode(encoded)
    IN  IF binary.tag = "raise" THEN
            [outcome |-> IF binary.exc = "binascii.Error"
                         THEN Raise("ValueError", "Invalid base64 image data.")
                         ELSE binary]
        ELSE
        LET filename == upload_filename(client_object_id, label, image_extension(header))
            path     == UPLOAD_FOLDER \o <<"/">> \o filename
        IN  [outcome |-> Return(<<path, <<"HOST", "/">> \o uploads \o <<"/">> \o filename>>),
             path    |-> path,
             data    |-> binary.val]

(***************************************************************************)
(* Exceptions: the classes raised in a request and the handler's except    *)
(* clauses, app.py lines 693-697                                           *)
(***************************************************************************)
\* The classes that "except ValueError" catches: ValueError and its
\* subclasses json.JSONDecodeError and binascii.Error.
ValueErrors == {"ValueError", "JSONDecodeError", "binascii.Error"}

Response(status, body) == [status |-> status, body |-> body]
NoResponse == Response(0, <<>>)

\* Mutant: only ValueError itself is answered 400; its subclasses go to the
\* generic clause.
error_response_exact_class(exc) ==
    IF exc.exc = "ValueError"
    THEN Response(400, [error |-> exc.msg])
    ELSE Response(500, [error |-> "Failed to process object.", details |-> exc.msg])

\* Lines 693-697: except ValueError -> 400, except Exception -> 500.
error_response(exc) ==
    IF exc.exc \in ValueErrors
    THEN Response(400, [error |-> exc.msg])
    ELSE Response(500, [error |-> "Failed to process object.", details |-> exc.msg])

(***************************************************************************)
(* build_phase1_prompt, app.py lines 481-484.  A template is its four      *)
(* pieces of fixed text around {object}, {image_url} and {example}, which  *)
(* each template holds once and in this order; a piece and an example      *)
(* block are one token each.                                               *)
(***************************************************************************)
none_text == <<"n","o","n","e">>

\* The four pieces of fixed text of a template, each one token.
Pieces(t) ==
    CASE t = "PHASE1_PROMPT" -> <<"PHASE1_PROMPT[1]", "PHASE1_PROMPT[2]", "PHASE1_PROMPT[3]", "PHASE1_PROMPT[4]">>
          [] t = "PHASE1_PROMPT_PHYSICS" -> <<"PHASE1_PROMPT_PHYSICS[1]", "PHASE1_PROMPT_PHYSICS[2]", "PHASE1_PROMPT_PHYSICS[3]", "PHASE1_PROMPT_PHYSICS[4]">>
          [] t = "PHASE1_PROMPT_BIOLOGY" -> <<"PHASE1_PROMPT_BIOLOGY[1]", "PHASE1_PROMPT_BIOLOGY[2]", "PHASE1_PROMPT_BIOLOGY[3]", "PHASE1_PROMPT_BIOLOGY[4]">>
          [] t = "PHASE1_PROMPT_ART" -> <<"PHASE1_PROMPT_ART[1]", "PHASE1_PROMPT_ART[2]", "PHASE1_PROMPT_ART[3]", "PHASE1_PROMPT_ART[4]">>

\* Mutant: the template and the example of the default lens, whatever the
\* lens.
build_phase1_prompt_default_lens(lens, object_name, image_url) ==
    LET config     == PHASE1_CONFIG[DEFAULT_LENS]
        safe_image == IF image_url = <<>> THEN none_text ELSE image_url
    IN  <<Pieces(config.template)[1]>> \o object_name
        \o <<Pieces(config.template)[2]>> \o safe_image
        \o <<Pieces(config.template)[3]>> \o <<config.example>>
        \o <<Pieces(config.template)[4]>>

\* Mutant: an empty image reference is substituted as it is.
build_phase1_prompt_no_placeholder(lens, object_name, image_url) ==
    LET config == DictGet(PHASE1_CONFIG, lens, PHASE1_CONFIG[DEFAULT_LENS])
    IN  <<Pieces(config.template)[1]>> \o object_name
        \o <<Pieces(config.template)[2]>> \o image_url
        \o <<Pieces(config.template)[3]>> \o <<config.example>>
        \o <<Pieces(config.template)[4]>>

build_phase1_prompt(lens, object_name, image_url) ==
    LET config     == DictGet(PHASE1_CONFIG, lens, PHASE1_CONFIG[DEFAULT_LENS])
        safe_image == IF image_url = <<>> THEN none_text ELSE image_url
    IN  <<Pieces(config.template)[1]>> \o object_name
        \o <<Pieces(config.template)[2]>> \o safe_image
        \o <<Pieces(config.template)[3]>> \o <<config.example>>
        \o <<Pieces(config.template)[4]>>

(***************************************************************************)
(* dict operations on the parsed facts                                     *)
(***************************************************************************)
DictHas(d, key) == \E i \in DOMAIN d.items : d.items[i][1] = key
DictItem(d, key) == d.items[CHOOSE i \in DOMAIN d.items : d.items[i][1] = key][2]

k_equation == <<"e","q","u","a","t","i","o","n">>
k_explanation == <<"e","x","p","l","a","n","a","t","i","o","n">>
k_guide == <<"g","u","i","d","e">>
default_guide == 
    <<"C","r","e","a","t","e"," ","a"," ","n","e","o","n"," ","d","i","a","g",
    "r","a","m"," ","o","f"," ","t","h","e"," ","o","b","j","e","c","t",".">>

\* Mutant: the facts are left as the model gave them.
CleanKeys_skipped(d, keys) == d

\* Lines 665-667: each of the three keys the facts hold is cleaned for the
\* prompt.
RECURSIVE CleanKeys(_, _)
CleanKeys(d, keys) ==
    IF keys = <<>> THEN d
    ELSE LET key  == Head(keys)
             next == IF DictHas(d, key)
                     THEN PyDict(DictSet(d.items, key,
                                         PyStr(clean_text_for_prompt(DictItem(d, key)))))
                     ELSE d
         IN  CleanKeys(next, Tail(keys))

(***************************************************************************)
(* generate_vertex_overlay, phase2_vertex.py lines 14-65                   *)
(***************************************************************************)
\* Lines 16-37: the instruction chosen by the lens_mode argument.
lens_prompt(lens) ==
    IF lens = math THEN "glowing schematic, transparent background, not a photo"
    ELSE "keep the photo realistic, overlay annotations"

outputs_dir == <<"o","u","t","p","u","t","s">>
dot_png == <<".","p","n","g">>

\* Line 55: f"outputs/{object_name}_{lens_mode}.png"
output_path(object_name, lens) ==
    outputs_dir \o <<"/">> \o object_name \o <<"_">> \o lens \o dot_png

\* The names between the "/" of a path, the empty ones left out.
Components(path) ==
    LET cuts  == <<0>> \o SelectSeq([i \in 1..Len(path) |-> i], LAMBDA i : path[i] = "/")
                 \o <<Len(path) + 1>>
        names == [k \in 1..(Len(cuts) - 1) |-> SubSeq(path, cuts[k] + 1, cuts[k + 1] - 1)]
    IN  SelectSeq(names, LAMBDA n : n # <<>>)

\* The names with each ".." and the name before it taken out, as the
\* operating system follows a path.
RECURSIVE Followed(_, _)
Followed(names, done) ==
    IF names = <<>> THEN done
    ELSE IF Head(names) = <<".", ".">>
    THEN Followed(Tail(names), IF done = <<>> THEN <<>> ELSE SubSeq(done, 1, Len(done) - 1))
    ELSE IF Head(names) = <<".">> THEN Followed(Tail(names), done)
    ELSE Followed(Tail(names), Append(done, Head(names)))

\* The directory a path names a file in, from the working directory CWD;
\* a path that does not start at CWD is relative to it.
DirectoryOf(path) ==
    LET names == Followed(Components(IF path # <<>> /\ path[1] = "CWD" THEN path
                                      ELSE <<"CWD", "/">> \o path), <<>>)
    IN  SubSeq(names, 1, Len(names) - 1)

\* app.py lines 15-17 and phase2_vertex.py line 54: the directories the
\* program makes.
Directories == {<<<<"CWD">>>>, <<<<"CWD">>, uploads>>, <<<<"CWD">>, outputs_dir>>}

\* A part of the response carries inline image data or does not.
HasInlineData(part) == part.inline_data # "none"

\* part.as_image(): the image of a part, as the API sent it.
as_image(part) == [image |-> part.inline_data, mode |-> "as sent", background |-> TRUE]

\* Image.open(output_path).convert("RGBA")
convert_rgba(image) == [image EXCEPT !.mode = "RGBA"]

\* rembg's remove(image): the image without its background.
remove(image) == [image EXCEPT !.background = FALSE]

\* Mutant: the image is left as it was saved.
save_overlay_as_sent(parts, path) ==
    LET inline == {i \in DOMAIN parts : HasInlineData(parts[i])}
    IN  IF inline = {} THEN [returned |-> PyNone, written |-> <<>>]
        ELSE [returned |-> PyStr(path),
              written  |-> <<as_image(parts[MinOf(inline)])>>]

\* Mutant: every part with inline data is saved, each over the one before.
save_overlay_every_part(parts, path) ==
    LET inline == {i \in DOMAIN parts : HasInlineData(parts[i])}
    IN  IF inline = {} THEN [returned |-> PyNone, written |-> <<>>]
        ELSE LET image == as_image(parts[MaxOf(inline)])
             IN  [returned |-> PyStr(path),
                  written  |-> <<image, remove(convert_rgba(image))>>]

\* Mutant: without an image a path is returned all the same.
save_overlay_path_always(parts, path) ==
    LET inline == {i \in DOMAIN parts : HasInlineData(parts[i])}
    IN  IF inline = {} THEN [returned |-> PyStr(path), written |-> <<>>]
        ELSE LET image == as_image(parts[MinOf(inline)])
             IN  [returned |-> PyStr(path),
                  written  |-> <<image, remove(convert_rgba(image))>>]

\* Lines 57-65: the first part with inline data is saved, opened again,
\* has its background removed and is saved over the first file, whatever
\* the lens; the path is returned, or None if no part has inline data.
\* written is what is saved at the path, in order.
save_overlay(parts, path) ==
    LET inline == {i \in DOMAIN parts : HasInlineData(parts[i])}
    IN  IF inline = {} THEN [returned |-> PyNone, written |-> <<>>]
        ELSE LET image == as_image(parts[MinOf(inline)])
             IN  [returned |-> PyStr(path),
                  written  |-> <<image, remove(convert_rgba(image))>>]

\* encode_file_to_base64, app.py lines 598-602.
encode_file_to_base64(image_path, fs) ==
    IF image_path = PyNone \/ image_path.val = <<>> \/ image_path.val \notin DOMAIN fs
    THEN Raise("FileNotFoundError", "Generated overlay image missing.")
    ELSE Return(<<"BASE64", fs[image_path.val]>>)

(***************************************************************************)
(* POST /api/objects: process_object_detection, app.py lines 642-697, with *)
(* the calls it makes.  One request is followed from its arrival to its    *)
(* response; the two external APIs answer as they choose.                  *)
(***************************************************************************)
\* Python's "a or b" on optional strings.
Or(a, b) == IF Truthy(a) THEN a ELSE b

\* str(uuid4()): 36 characters, hexadecimal digits in groups divided by "-".
Uuids == { <<"1","b","9","d","6","b","c","d","-","b","b","f","d","-","4","b",
          "2","d","-","9","b","5","d","-","a","b","8","d","f","b","b","d","4",
          "b","e","d">> }

Payloads ==
    [clientObjectId : {PyNone, PyStr(<<"o","b","j"," ","1">>)},
     lensMode       : {PyNone, PyStr(math), PyStr(<<"P","h","y","s","i","c","s"," ">>), PyStr(eco)},
     label          : {PyNone, PyStr(<<" ", " ">>), PyStr(<<" ","s","o","d","a"," ","b","o","t","t","l","e"," ">>)},
     object         : {PyNone, PyStr(<<"c","u","p">>)},
     imageBase64    : {PyNone, PyStr(<<>>)} \cup {PyStr(i) : i \in {
        <<"Q","U","J","D">>,
        <<"d","a","t","a",":","i","m","a","g","e","/","j","p","e","g",";",
          "b","a","s","e","6","4",",","Q","U","J","D">>,
        <<"d","a","t","a",":","t","e","x","t","/","p","l","a","i","n",",",
          "Q","U","J","D">>,
        <<"Q","U","J">>,
        <<"Q","U","=","D">>,
        <<"Q","U","J","PI">>,
        <<",">> }}]

\* What the chat API may answer: a message content, a message without
\* content, or an error of the client library.
ChatContents == {
    <<"S","u","r","e","."," ","{","\"","o","b","j","e","c","t","\"",":",
      "\"","b","o","t","t","l","e","\"",",","\"","e","q","u","a","t","i","o",
      "n","\"",":","\"","V"," ","="," ","PI","r","SUP2","h","\"",",","\"","e",
      "x","p","l","a","n","a","t","i","o","n","\"",":","\"","A","r","e","a",
      " ","x"," ","2"," ","MIDDOT"," ","r"," ","&","l","t",";"," ","9",
      "DEGREE","\"",",","\"","g","u","i","d","e","\"",":","\"","S","t","e",
      "p"," ","1","\"","}"," ","D","o","n","e",".">>,
    <<"{","\"","e","x","p","l","a","n","a","t","i","o","n","\"",":","\"",
      "r","SUP2"," ","h","SUP3"," ","a","DIVIDE","b"," ","SQRT","c"," ","THETA",
      " ","PLUSMINUS","1"," ","APPROX"," ","d","TIMES","e","\"","}">>,
    <<"{","\"","e","q","u","a","t","i","o","n","\"",":","{","\"","k","\"",
      ":","1","}",",","\"","g","u","i","d","e","\"",":","1","}">>,
    <<"{"," ","}">>,
    <<"I"," ","c","a","n","n","o","t"," ","h","e","l","p"," ","w","i","t",
      "h"," ","t","h","a","t",".">>,
    <<"}"," ","t","h","e","n"," ","{">>,
    <<"{","\"","e","x","p","l","a","n","a","t","i","o","n","\"",":"," ",
      "}">>,
    <<"{","\"","e","x","p","l","a","n","a","t","i","o","n","\"",":","\"",
      "a","\"","}"," ","a","n","d"," ","{","\"","g","u","i","d","e","\"",":",
      "\"","b","\"","}">>,
    <<"{","n","o","t"," ","j","s","o","n","}">> }

ChatOutcomes ==
    {Return(PyStr(c)) : c \in ChatContents}
    \cup {Return(PyNone), Raise("APIError", "chat completion failed")}

\* A part of the image API's response: text, or one of two images.
Parts == {[inline_data |-> "none"], [inline_data |-> "imageA"], [inline_data |-> "imageB"]}
MaxParts == 2

\* What client.models.generate_content may do: answer with parts, or raise
\* an error of the client library, which may be of a class of its own or a
\* ValueError (the class of the library's response validation errors).
ImageOutcomes ==
    {Return(ps) : ps \in SeqsUpTo(Parts, MaxParts)}
    \cup {Raise("APIError", "generate_content failed"),
          Raise("ValueError", "response validation failed")}

\* What phase2_vertex.py lines 59-63 may do with a part that has inline
\* data: save it, open it again, convert it and remove its background, or
\* raise when the saved bytes are opened (the image library cannot read
\* them).
OverlaySteps == {Return("saved"), Raise("UnidentifiedImageError", "cannot identify image file")}

\* Mutant: an empty label is left empty.
request_label_no_fallback(payload) ==
    Strip(Or(Or(payload.label, payload.object), PyStr(<<>>)).val)

\* Line 647: (payload.get("label") or payload.get("object") or "").strip()
\* or "object"
request_label(payload) ==
    LET label == Strip(Or(Or(payload.label, payload.object), PyStr(<<>>)).val)
    IN  IF label = <<>> THEN fallback_object ELSE label

\* An overlay that an earlier request left at each output path.
StaleOutputs ==
    [path \in {output_path(request_label(p), resolve_lens_mode(p.lensMode)) :
                  p \in Payloads} |->
        [image |-> "stale", mode |-> "RGBA", background |-> FALSE]]

\* The files of uploads/ and outputs/ when the request arrives: none, or
\* the overlays of earlier requests.
InitialFiles == {<<>>, StaleOutputs}

EndpointInit ==
    /\ phase = "endpoint"
    /\ req \in {[pc |-> "received", payload |-> p, client_object_id |-> <<>>,
                 lens_mode |-> <<>>, label |-> <<>>, image_path |-> <<>>,
                 image_url |-> <<>>, chat |-> Pending, phase1 |-> Pending,
                 image |-> Pending,
                 explanation |-> <<>>, guide |-> <<>>, overlay_path |-> PyNone,
                 raised |-> Pending, response |-> NoResponse] : p \in Payloads}
    /\ calls = <<>>
    /\ files \in InitialFiles
    /\ LensIdle
    /\ FactsIdle
    /\ CleanIdle

Respond(r, response) == [r EXCEPT !.pc = "responded", !.response = response]

\* Lines 693-697: an exception raised inside the try block reaches the
\* except clauses, which answer it.
Caught(r, exc) == [Respond(r, error_response(exc)) EXCEPT !.raised = exc]

\* Lines 644-651: the locals are read from the payload; without an image the
\* request is answered 400.
Receive ==
    /\ phase = "endpoint"
    /\ req.pc = "received"
    /\ \E uuid \in Uuids :
        LET payload == req.payload
            locals  == [req EXCEPT
                          !.client_object_id = Or(payload.clientObjectId, PyStr(uuid)).val,
                          !.lens_mode = resolve_lens_mode(payload.lensMode),
                          !.label = request_label(payload)]
        IN  req' = IF ~Truthy(payload.imageBase64)
                   THEN Respond(locals, Response(400, [error |-> "imageBase64 is required."]))
                   ELSE [locals EXCEPT !.pc = "validated"]
    /\ UNCHANGED <<phase, raw_mode, lens_mode, content, facts, value, outs, calls, files>>

\* Lines 653-656: the upload is decoded and written; a ValueError is
\* answered 400.
Persist ==
    /\ phase = "endpoint"
    /\ req.pc = "validated"
    /\ LET saved == persist_uploaded_image(req.payload.imageBase64.val,
                                           req.client_object_id, req.label)
       IN  IF saved.outcome.tag = "raise"
           THEN /\ req' = Respond(req, Response(400, [error |-> saved.outcome.msg]))
                /\ files' = files
           ELSE /\ req' = [req EXCEPT !.pc = "persisted",
                                      !.image_path = saved.outcome.val[1],
                                      !.image_url = saved.outcome.val[2]]
                /\ files' = (saved.path :> saved.data) @@ files
    /\ UNCHANGED <<phase, raw_mode, lens_mode, content, facts, value, outs, calls>>

\* Lines 659-663 and 606-626: generate_equation_facts is entered and sends
\* its one chat completion request.
CallChat ==
    /\ phase = "endpoint"
    /\ req.pc = "persisted"
    /\ LET object_name == Strip(req.label)
           lens        == resolve_lens_mode(PyStr(req.lens_mode))
       IN  IF object_name = <<>>
           THEN /\ req' = Caught(req,
                              Raise("ValueError", "Object name is required for lens generation."))
                /\ calls' = calls
           ELSE /\ req' = [req EXCEPT !.pc = "chat"]
                /\ calls' = Append(calls,
                      [api    |-> "chat",
                       system |-> DictGet(LENS_PROMPTS, lens, LENS_PROMPTS[DEFAULT_LENS]),
                       user   |-> build_phase1_prompt(lens, object_name, req.image_url)])
    /\ UNCHANGED <<phase, raw_mode, lens_mode, content, facts, value, outs, files>>

\* What generate_equation_facts makes of the chat API's answer, lines
\* 617-633.
facts_of(chat) ==
    IF chat.tag = "raise" THEN chat
    ELSE IF chat.val = PyNone
    THEN Raise("AttributeError", "'NoneType' object has no attribute 'strip'")
    ELSE extract_facts(chat.val.val)

\* phase1.get(key, default)
FactsGet(d, key, default) == IF DictHas(d, key) THEN DictItem(d, key) ELSE default

\* Mutant: when the chat client raises, the request is sent once more.
ChatResponds_retry ==
    /\ phase = "endpoint"
    /\ req.pc = "chat"
    /\ \E chat \in ChatOutcomes :
        LET phase1 == facts_of(chat)
        IN  IF chat.tag = "raise" /\ Len(calls) < 2
            THEN req' = [req EXCEPT !.pc = "persisted"]
            ELSE IF phase1.tag = "raise"
            THEN req' = Caught([req EXCEPT !.chat = chat, !.phase1 = phase1], phase1)
            ELSE LET cleaned == CleanKeys(phase1.val, <<k_equation, k_explanation, k_guide>>)
                 IN  req' = [req EXCEPT
                               !.pc = "facts",
                               !.chat = chat,
                               !.phase1 = Return(cleaned),
                               !.explanation =
                                   clean_explanation(FactsGet(cleaned, k_explanation, PyStr(<<>>))),
                               !.guide = FactsGet(cleaned, k_guide, PyStr(default_guide)).val]
    /\ UNCHANGED <<phase, raw_mode, lens_mode, content, facts, value, outs, calls, files>>

\* Lines 628-633 and 665-670: the chat API answers; the facts are extracted
\* and cleaned, or the failure is answered by the except clauses.
ChatResponds ==
    /\ phase = "endpoint"
    /\ req.pc = "chat"
    /\ \E chat \in ChatOutcomes :
        LET phase1 == facts_of(chat)
        IN  IF phase1.tag = "raise"
            THEN req' = Caught([req EXCEPT !.chat = chat, !.phase1 = phase1], phase1)
            ELSE LET cleaned == CleanKeys(phase1.val, <<k_equation, k_explanation, k_guide>>)
                 IN  req' = [req EXCEPT
                               !.pc = "facts",
                               !.chat = chat,
                               !.phase1 = Return(cleaned),
                               !.explanation =
                                   clean_explanation(FactsGet(cleaned, k_explanation, PyStr(<<>>))),
                               !.guide = FactsGet(cleaned, k_guide, PyStr(default_guide)).val]
    /\ UNCHANGED <<phase, raw_mode, lens_mode, content, facts, value, outs, calls, files>>

\* Mutant: the image request is sent without waiting for the chat API's
\* answer, with the default guide.
CallImage_unordered ==
    /\ phase = "endpoint"
    /\ req.pc \in {"chat", "facts"}
    /\ req' = IF req.pc = "facts" THEN [req EXCEPT !.pc = "image"]
              ELSE [req EXCEPT !.pc = "image", !.phase1 = Return(PyDict(<<>>)),
                               !.guide = default_guide]
    /\ \E opened \in BOOLEAN :
        calls' = Append(calls,
          [api      |-> "image",
           contents |-> <<[instruction |-> lens_prompt(req.lens_mode),
                           object_name |-> req.label,
                           guide       |-> req'.guide]>>
                        \o (IF /\ req.image_path # <<>>
                               /\ req.image_path \in DOMAIN files
                               /\ opened
                            THEN <<[image |-> files[req.image_path]]>> ELSE <<>>)])
    /\ UNCHANGED <<phase, raw_mode, lens_mode, content, facts, value, outs, files>>

\* Line 672 and phase2_vertex.py lines 14-52: generate_vertex_overlay is
\* entered and sends its one image generation request.  The uploaded bytes
\* are whatever the caller sent: Image.open reads them as an image or
\* raises, and lines 46-47 print the exception and go on without the image.
CallImage ==
    /\ phase = "endpoint"
    /\ req.pc = "facts"
    /\ req' = [req EXCEPT !.pc = "image"]
    /\ \E opened \in BOOLEAN :
        calls' = Append(calls,
          [api      |-> "image",
           contents |-> <<[instruction |-> lens_prompt(req.lens_mode),
                           object_name |-> req.label,
                           guide       |-> req.guide]>>
                        \o (IF /\ req.image_path # <<>>
                               /\ req.image_path \in DOMAIN files
                               /\ opened
                            THEN <<[image |-> files[req.image_path]]>> ELSE <<>>)])
    /\ UNCHANGED <<phase, raw_mode, lens_mode, content, facts, value, outs, files>>

overlay_message == <<"O","v","e","r","l","a","y"," ","g","e","n","e","r","a","t","e","d",".">>

\* The files without the one at path.
Remove(fs, path) == [p \in DOMAIN fs \ {path} |-> fs[p]]

\* phase2_vertex.py lines 54-65 and app.py lines 680-697: the image API
\* answers; the overlay is written and the request is answered.  When the
\* saved overlay cannot be opened again, the file of the first save stays
\* and the exception reaches the handler.  The file at the output path may
\* be gone when it is read: outputs/ is a directory that other processes can
\* write to.
ImageResponds ==
    /\ phase = "endpoint"
    /\ req.pc = "image"
    /\ \E image \in ImageOutcomes :
        IF image.tag = "raise"
        THEN /\ req' = Caught([req EXCEPT !.image = image], image)
             /\ files' = files
        ELSE \E kept \in BOOLEAN, step \in OverlaySteps :
             LET path     == output_path(req.label, req.lens_mode)
                 saved    == save_overlay(image.val, path)
                 failed   == saved.written # <<>> /\ step.tag = "raise"
                 written  == IF saved.written = <<>> THEN files
                             ELSE IF failed THEN (path :> saved.written[1]) @@ files
                             ELSE (path :> saved.written[Len(saved.written)]) @@ files
                 found    == IF kept \/ failed THEN written ELSE Remove(written, path)
                 encoded  == encode_file_to_base64(saved.returned, found)
                 equation == FactsGet(req.phase1.val, k_equation, PyNone)
                 done     == [req EXCEPT !.image = image, !.overlay_path = saved.returned]
             IN  /\ files' = found
                 /\ req' =
                      IF failed
                      THEN Caught([req EXCEPT !.image = image], step)
                      ELSE IF ~Truthy(saved.returned)
                      THEN Caught(done,
                               Raise("RuntimeError", "Vertex overlay generation returned no image."))
                      ELSE IF encoded.tag = "raise"
                      THEN Caught(done, encoded)
                      ELSE Respond(done, Response(200,
                               [clientObjectId       |-> req.client_object_id,
                                annotatedImageBase64 |-> encoded.val,
                                message              |-> Or(equation, PyStr(overlay_message)).val,
                                equation             |-> equation,
                                explanation          |-> req.explanation,
                                lensMode             |-> req.lens_mode]))
    /\ UNCHANGED <<phase, raw_mode, lens_mode, content, facts, value, outs, calls>>

EndpointNext ==
    Receive \/ Persist \/ CallChat \/ ChatResponds \/ CallImage \/ ImageResponds

SpecEndpoint == EndpointInit /\ [][EndpointNext]_vars

(***************************************************************************)
(* generate_equation_facts called on its own, app.py lines 606-633: the    *)
(* argument is a dict that may lack any of its three keys.                 *)
(***************************************************************************)
bottle == <<"b","o","t","t","l","e">>
sample_url == <<"h","t","t","p",":","/","/","h","o","s","t","/","u","p","l","o","a","d",
    "s","/","a","_","b",".","p","n","g">>

FactsArgs ==
    [object    : {PyNone, PyStr(<<>>), PyStr(<<" ", "\t">>), PyStr(bottle),
                  PyStr(<<" ","s","o","d","a"," ","b","o","t","t","l","e"," ">>)},
     lens_mode : {PyNone, PyStr(math), PyStr(physicist), PyStr(biologist),
                  PyStr(artist), PyStr(eco)},
     image_url : {PyNone, PyStr(<<>>), PyStr(sample_url)}]

\* Mutant: the name is not trimmed.
object_name_of_untrimmed(obj) == Or(obj.object, PyStr(<<>>)).val

\* Line 607: (obj.get("object") or "").strip()
object_name_of(obj) == Strip(Or(obj.object, PyStr(<<>>)).val)

\* Lines 611-626: the request generate_equation_facts sends to the chat API.
chat_request(obj) ==
    LET lens == resolve_lens_mode(obj.lens_mode)
    IN  [api    |-> "chat",
         system |-> DictGet(LENS_PROMPTS, lens, LENS_PROMPTS[DEFAULT_LENS]),
         user   |-> build_phase1_prompt(lens, object_name_of(obj),
                                        Or(obj.image_url, PyStr(<<>>)).val)]

Phase1Init ==
    /\ phase = "phase1"
    /\ req \in {[pc |-> "entered", obj |-> o, chat |-> Pending, result |-> Pending] :
                    o \in FactsArgs}
    /\ calls = <<>>
    /\ files = <<>>
    /\ LensIdle
    /\ FactsIdle
    /\ CleanIdle

\* Lines 606-626: the object name is checked and the chat request is sent.
FactsRequest ==
    /\ phase = "phase1"
    /\ req.pc = "entered"
    /\ IF object_name_of(req.obj) = <<>>
       THEN /\ req' = [req EXCEPT
                         !.pc = "returned",
                         !.result = Raise("ValueError",
                                          "Object name is required for lens generation.")]
            /\ calls' = calls
       ELSE /\ req' = [req EXCEPT !.pc = "chat"]
            /\ calls' = Append(calls, chat_request(req.obj))
    /\ UNCHANGED <<phase, raw_mode, lens_mode, content, facts, value, outs, files>>

\* Lines 617-633: the chat API answers and the facts are extracted.
FactsAnswer ==
    /\ phase = "phase1"
    /\ req.pc = "chat"
    /\ \E chat \in ChatOutcomes :
        req' = [req EXCEPT !.pc = "returned", !.chat = chat, !.result = facts_of(chat)]
    /\ UNCHANGED <<phase, raw_mode, lens_mode, content, facts, value, outs, calls, files>>

SpecPhase1 == Phase1Init /\ [][FactsRequest \/ FactsAnswer]_vars

(***************************************************************************)
(* Two requests to POST /api/objects served at once.  app.run (app.py line *)
(* 711) serves each request on a thread of its own; the threads share the  *)
(* uploads/ and outputs/ directories and nothing else.  A step of a        *)
(* request is the code between two of its accesses to the directories.  A  *)
(* file that is being written holds a part of its content until the writer *)
(* closes it.                                                              *)
(***************************************************************************)
Requests == {1, 2}

cup == <<"c","u","p">>
mug == <<"m","u","g">>

\* The payload of the first request, and the payloads of the second: the
\* same client identifier, one with the same slug, or another, or one that
\* reads as a path; the same label or another, or one that reads as a path;
\* the same lens or another.
FirstPayload ==
    [clientObjectId |-> PyStr(<<"o","b","j"," ","1">>), lensMode |-> PyStr(math),
     label |-> PyStr(cup), object |-> PyNone,
     imageBase64 |-> PyStr(<<"Q","U","J","D">>)]

SecondPayloads ==
    [clientObjectId : {PyStr(<<"o","b","j"," ","1">>), PyStr(<<"o","b","j","-","1">>),
                       PyStr(<<"o","b","j"," ","2">>), PyStr(<<".",".","/","o">>)},
     lensMode       : {PyStr(math), PyStr(physics)},
     label          : {PyStr(cup), PyStr(mug), PyStr(<<".",".","/","x">>),
                       PyStr(<<"a","/","b">>)},
     object         : {PyNone},
     imageBase64    : {PyStr(<<"Q","U","J","E">>)}]

\* What the chat API may answer to a request.
ConcurrentChat ==
    {Return(PyStr(<<"{","\"","e","q","u","a","t","i","o","n","\"",":","\"",
                    "V","\"","}">>)),
     Raise("APIError", "chat completion failed")}

\* What the image API may answer to request i: its own image, or text.
OwnImage(i) == IF i = 1 THEN "imageA" ELSE "imageB"
ConcurrentParts(i) == {<<[inline_data |-> OwnImage(i)]>>, <<[inline_data |-> "none"]>>}

Arrived(p) ==
    [pc |-> "received", payload |-> p, client_object_id |-> <<>>,
     lens_mode |-> <<>>, label |-> <<>>, image_path |-> <<>>,
     phase1 |-> Pending, explanation |-> <<>>, image |-> Pending,
     final |-> Pending, overlay_path |-> PyNone, wrote |-> {},
     raised |-> Pending, response |-> NoResponse]

ConcurrentInit ==
    /\ phase = "concurrent"
    /\ req \in {<<Arrived(FirstPayload), Arrived(p)>> : p \in SecondPayloads}
    /\ calls = <<>>
    /\ files = <<>>
    /\ LensIdle
    /\ FactsIdle
    /\ CleanIdle

\* Request i becomes r.
Becomes(i, r) == [req EXCEPT ![i] = r]

\* The content of a file that is being written with the image.
Partial(image) == [image EXCEPT !.mode = "partial"]

\* open(path, "wb"): the file is made or emptied, and filled from then on.
BeginWrite(fs, path, image) == (path :> Partial(image)) @@ fs

\* The file when its writer closes it: the image, if no one else has
\* written to the file since the writer opened it; otherwise the image or a
\* mix of the two writers' bytes.
EndWrite(fs, path, image) ==
    IF fs[path] = Partial(image)
    THEN {(path :> image) @@ fs}
    ELSE {(path :> image) @@ fs, (path :> Partial(image)) @@ fs}

\* app.py lines 644-656: the locals are read from the payload and the upload
\* is written.
Upload(i) ==
    /\ phase = "concurrent"
    /\ req[i].pc = "received"
    /\ \E uuid \in Uuids :
        LET payload == req[i].payload
            id      == Or(payload.clientObjectId, PyStr(uuid)).val
            label   == request_label(payload)
            saved   == persist_uploaded_image(payload.imageBase64.val, id, label)
        IN  IF ~Truthy(payload.imageBase64)
            THEN /\ req' = Becomes(i, Respond(req[i],
                               Response(400, [error |-> "imageBase64 is required."])))
                 /\ files' = files
            ELSE IF saved.outcome.tag = "raise"
            THEN /\ req' = Becomes(i, Respond(req[i],
                               Response(400, [error |-> saved.outcome.msg])))
                 /\ files' = files
            ELSE /\ req' = Becomes(i, [req[i] EXCEPT
                               !.pc = "persisted",
                               !.client_object_id = id,
                               !.lens_mode = resolve_lens_mode(payload.lensMode),
                               !.label = label,
                               !.image_path = saved.outcome.val[1],
                               !.wrote = {saved.path}])
                 /\ files' = (saved.path :> saved.data) @@ files
    /\ UNCHANGED <<phase, raw_mode, lens_mode, content, facts, value, outs, calls>>

\* app.py lines 659-670: the chat API is called and answers.
Facts(i) ==
    /\ phase = "concurrent"
    /\ req[i].pc = "persisted"
    /\ \E chat \in ConcurrentChat :
        LET phase1 == facts_of(chat)
        IN  IF phase1.tag = "raise"
            THEN req' = Becomes(i, Caught([req[i] EXCEPT !.phase1 = phase1], phase1))
            ELSE LET cleaned == CleanKeys(phase1.val, <<k_equation, k_explanation, k_guide>>)
                 IN  req' = Becomes(i, [req[i] EXCEPT
                               !.pc = "facts",
                               !.phase1 = Return(cleaned),
                               !.explanation =
                                   clean_explanation(FactsGet(cleaned, k_explanation, PyStr(<<>>)))])
    /\ UNCHANGED <<phase, raw_mode, lens_mode, content, facts, value, outs, calls, files>>

\* phase2_vertex.py lines 40-59 and 65, app.py lines 680-681: the image API
\* is called and answers; without a part with inline data the request fails.
Generate(i) ==
    /\ phase = "concurrent"
    /\ req[i].pc = "facts"
    /\ \E parts \in ConcurrentParts(i) :
        LET inline == {k \in DOMAIN parts : HasInlineData(parts[k])}
        IN  IF inline = {}
            THEN req' = Becomes(i, Caught(req[i],
                            Raise("RuntimeError", "Vertex overlay generation returned no image.")))
            ELSE req' = Becomes(i, [req[i] EXCEPT
                            !.pc = "answered",
                            !.image = Return(as_image(parts[MinOf(inline)]))])
    /\ UNCHANGED <<phase, raw_mode, lens_mode, content, facts, value, outs, calls, files>>

\* phase2_vertex.py lines 55 and 60: image.save(output_path) opens the file,
\* or raises when the path names no directory.
BeginSave(i) ==
    /\ phase = "concurrent"
    /\ req[i].pc = "answered"
    /\ LET path == output_path(req[i].label, req[i].lens_mode)
       IN  IF DirectoryOf(path) \notin Directories
           THEN /\ files' = files
                /\ req' = Becomes(i, Caught(req[i],
                              Raise("FileNotFoundError", "No such file or directory")))
           ELSE /\ files' = BeginWrite(files, path, req[i].image.val)
                /\ req' = Becomes(i, [req[i] EXCEPT !.pc = "saving",
                                                   !.wrote = @ \cup {path}])
    /\ UNCHANGED <<phase, raw_mode, lens_mode, content, facts, value, outs, calls>>

\* Line 60: image.save(output_path) has written the image.
EndSave(i) ==
    /\ phase = "concurrent"
    /\ req[i].pc = "saving"
    /\ files' \in EndWrite(files, output_path(req[i].label, req[i].lens_mode),
                          req[i].image.val)
    /\ req' = Becomes(i, [req[i] EXCEPT !.pc = "saved"])
    /\ UNCHANGED <<phase, raw_mode, lens_mode, content, facts, value, outs, calls>>

\* Lines 61-62: the file at the output path is opened again, converted and
\* has its background removed; a file that is not whole cannot be read.
Reopen(i) ==
    /\ phase = "concurrent"
    /\ req[i].pc = "saved"
    /\ LET found == files[output_path(req[i].label, req[i].lens_mode)]
       IN  req' = Becomes(i,
               IF found.mode = "partial"
               THEN Caught(req[i], Raise("OSError", "image file is truncated"))
               ELSE [req[i] EXCEPT !.pc = "converted",
                                   !.final = Return(remove(convert_rgba(found)))])
    /\ UNCHANGED <<phase, raw_mode, lens_mode, content, facts, value, outs, calls, files>>

\* Line 63: final_no_bg.save(output_path) opens the file.
BeginOverwrite(i) ==
    /\ phase = "concurrent"
    /\ req[i].pc = "converted"
    /\ files' = BeginWrite(files, output_path(req[i].label, req[i].lens_mode),
                           req[i].final.val)
    /\ req' = Becomes(i, [req[i] EXCEPT !.pc = "overwriting"])
    /\ UNCHANGED <<phase, raw_mode, lens_mode, content, facts, value, outs, calls>>

\* Lines 63-64: the image without its background is written and the path is
\* returned.
EndOverwrite(i) ==
    /\ phase = "concurrent"
    /\ req[i].pc = "overwriting"
    /\ LET path == output_path(req[i].label, req[i].lens_mode)
       IN  /\ files' \in EndWrite(files, path, req[i].final.val)
           /\ req' = Becomes(i, [req[i] EXCEPT !.pc = "written",
                                              !.overlay_path = PyStr(path)])
    /\ UNCHANGED <<phase, raw_mode, lens_mode, content, facts, value, outs, calls>>

\* app.py lines 680-692: the file at the returned path is read and encoded,
\* and the request is answered.
Encode(i) ==
    /\ phase = "concurrent"
    /\ req[i].pc = "written"
    /\ LET encoded  == encode_file_to_base64(req[i].overlay_path, files)
           equation == FactsGet(req[i].phase1.val, k_equation, PyNone)
       IN  req' = Becomes(i,
               IF encoded.tag = "raise" THEN Caught(req[i], encoded)
               ELSE Respond(req[i], Response(200,
                        [clientObjectId       |-> req[i].client_object_id,
                         annotatedImageBase64 |-> encoded.val,
                         message              |-> Or(equation, PyStr(overlay_message)).val,
                         equation             |-> equation,
                         explanation          |-> req[i].explanation,
                         lensMode             |-> req[i].lens_mode])))
    /\ UNCHANGED <<phase, raw_mode, lens_mode, content, facts, value, outs, calls, files>>

ConcurrentNext ==
    \E i \in Requests :
        \/ Upload(i)
        \/ Facts(i)
        \/ Generate(i)
        \/ BeginSave(i)
        \/ EndSave(i)
        \/ Reopen(i)
        \/ BeginOverwrite(i)
        \/ EndOverwrite(i)
        \/ Encode(i)

SpecConcurrent == ConcurrentInit /\ [][ConcurrentNext]_vars

(***************************************************************************)
(* resolve_lens_mode called on its own and called twice in a request: by   *)
(* process_object_detection (app.py line 646) and, on the lens that call   *)
(* returned, by generate_equation_facts (line 611)                         *)
(***************************************************************************)
LensUseInit == LensInit \/ EndpointInit

SpecLensUse == LensUseInit /\ [][Resolve \/ EndpointNext]_vars

(***************************************************************************)
(* The lens resolver's claims, checked under SpecLens                      *)
(***************************************************************************)
ConfiguredLenses == DOMAIN PHASE1_CONFIG

Resolved == phase = "lens" /\ lens_mode # Unset

\* The input is absent, or its stripped, lower-cased, alias-mapped form is
\* not a configured lens.
Unrecognized(raw) ==
    \/ raw = PyNone
    \/ raw.val = <<>>
    \/ LET n == Lower(Strip(raw.val))
       IN  DictGet(LENS_ALIASES, n, n) \notin ConfiguredLenses

\* C1: resolve_lens_mode returns, for every string and for absent input, one
\* of the four configured lenses, and the default 'mathematician' whenever
\* the input is absent or does not normalise to a configured lens.
C1_ResolveTotalWithDefault ==
    Resolved =>
        /\ lens_mode \in {mathematician, physicist, biologist, artist}
        /\ Unrecognized(raw_mode) => lens_mode = mathematician

\* An unrecognised, non-empty input has been resolved to the default.
C1_Witness ==
    /\ Resolved
    /\ raw_mode = PyStr(<<" ">> \o Recase(eco, "upper"))
    /\ lens_mode = mathematician

\* The text t is the word w in some letter case, with white space before
\* and after it.
IsVariantOf(t, w) ==
    \E before \in 0..(Len(t) - Len(w)) :
        /\ \A i \in 1..before : t[i] \in {" ", "\t", "\n"}
        /\ \A i \in 1..Len(w) : t[before + i] \in {w[i], UpperChar(w[i])}
        /\ \A i \in (before + Len(w) + 1)..Len(t) : t[i] \in {" ", "\t", "\n"}

\* C2: every variant of a lens identifier or alias that differs from it only
\* in letter case or in leading/trailing white space resolves to the
\* canonical lens of that identifier.
C2_CaseAndSpaceInsensitive ==
    (Resolved /\ raw_mode.tag = "str") =>
        \A k \in DOMAIN LENS_ALIASES :
            IsVariantOf(raw_mode.val, k) => lens_mode = LENS_ALIASES[k]

\* 'Physics ' has been resolved to physicist.
C2_Witness ==
    /\ Resolved
    /\ raw_mode = PyStr(<<"P","h","y","s","i","c","s"," ">>)
    /\ lens_mode = physicist

\* What the configuration holds for a lens: its system instruction, its
\* prompt template and its few-shot example block.
LensAssets(k) ==
    <<LENS_PROMPTS[k], PHASE1_CONFIG[k].template, PHASE1_CONFIG[k].example>>

HasOwnAssets(k) ==
    /\ k \in DOMAIN LENS_PROMPTS
    /\ k \in DOMAIN PHASE1_CONFIG
    /\ \A j \in ConfiguredLenses \ {k} :
          /\ LENS_PROMPTS[j] # LENS_PROMPTS[k]
          /\ PHASE1_CONFIG[j].template # PHASE1_CONFIG[k].template
          /\ PHASE1_CONFIG[j].example # PHASE1_CONFIG[k].example

Extracted == phase = "facts" /\ facts # Pending

\* The text s is one JSON object, from its "{" to its "}".
IsJsonObject(s) ==
    /\ Len(s) >= 2
    /\ s[1] = "{"
    /\ s[Len(s)] = "}"
    /\ json_loads(s).tag = "return"

\* The places <<i, j>> of t that hold a JSON object.
ObjectSpans(t) ==
    {sp \in Positions(t, "{") \X Positions(t, "}") :
        sp[1] < sp[2] /\ IsJsonObject(SubSeq(t, sp[1], sp[2]))}

\* The top-level ones: those that lie inside no other.
TopSpans(t) ==
    LET all == ObjectSpans(t)
    IN  {sp \in all :
            \A other \in all : other # sp => ~(other[1] <= sp[1] /\ sp[2] <= other[2])}

FirstSpan(S) == CHOOSE sp \in S : \A other \in S : sp[1] <= other[1]

ParsedAt(t, sp) == json_loads(SubSeq(t, sp[1], sp[2]))

\* C4 as stated: a response that holds exactly one JSON object, whatever the
\* prose around it, yields that object's parsed value.
C4_OneObjectAnyProse ==
    Extracted =>
        LET top == TopSpans(content)
        IN  Cardinality(top) = 1 => facts = ParsedAt(content, FirstSpan(top))

\* C4 amended: a response that holds exactly one JSON object, with no "{" in
\* the prose before it and no "}" in the prose after it, yields that
\* object's parsed value.
C4_OneObjectBraceFreeProse ==
    Extracted =>
        LET top == TopSpans(content)
            sp  == FirstSpan(top)
        IN  ( /\ Cardinality(top) = 1
              /\ \A i \in Positions(content, "{") : sp[1] <= i
              /\ \A j \in Positions(content, "}") : j <= sp[2] )
            => facts = ParsedAt(content, sp)

\* The object {"p":1} has been extracted from between two pieces of prose.
C4_Witness ==
    /\ Extracted
    /\ content = <<"p", " ", "{", "\"", "p", "\"", ":", "1", "}", " ", "p">>
    /\ facts = Return(PyDict(<< <<<<"p">>, PyNum(<<"1">>)>> >>))

\* C5 as stated: of several top-level JSON objects in the response the first
\* is extracted and returned.
C5_FirstObjectReturned ==
    Extracted =>
        LET top == TopSpans(content)
        IN  Cardinality(top) > 1 => facts = ParsedAt(content, FirstSpan(top))

\* C5 amended: when the response holds several top-level JSON objects none
\* of them is returned: the text from the first "{" to the last "}" spans
\* them all and parsing it raises json.JSONDecodeError.
C5_SeveralObjectsParseError ==
    Extracted =>
        LET top == TopSpans(content)
        IN  Cardinality(top) > 1 =>
                /\ facts.tag = "raise"
                /\ facts.exc = "JSONDecodeError"
                /\ \A sp \in top :
                      /\ MinOf(Positions(content, "{")) <= sp[1]
                      /\ sp[2] <= MaxOf(Positions(content, "}"))

\* A response of two objects has been refused.
C5_Witness ==
    /\ Extracted
    /\ content = <<"{", "}", "{", "}">>
    /\ facts = Raise("JSONDecodeError", "Extra data")

(***************************************************************************)
(* The cleaners' claims, checked under SpecClean                           *)
(***************************************************************************)
\* C7: clean_text_for_prompt is idempotent: a second pass over the text of
\* the first returns that text.
C7_PromptCleanIdempotent ==
    (phase = "prompt" /\ Len(outs) >= 2) => outs[2] = outs[1]

\* C8: clean_explanation is idempotent, also on texts that are truncated: a
\* second pass over the text of the first returns that text.
C8_DisplayCleanIdempotent ==
    (phase = "display" /\ Len(outs) >= 2) => outs[2] = outs[1]

\* A text of more than MaxDisplay characters has been cleaned twice, the
\* first pass having truncated it.
C8_Witness ==
    /\ phase = "display"
    /\ Len(outs) = 2
    /\ value.tag = "str"
    /\ Len(DisplayBody(value.val)) > MaxDisplay
    /\ Len(outs[1]) = MaxDisplay + 3
    /\ outs[2] = outs[1]

\* C9: clean_explanation returns at most 253 characters, all of them of the
\* whitelist; a cleaned text of more than 250 characters is returned as its
\* first 250 characters and "...", any other as it is.
C9_DisplayBounded ==
    (phase = "display" /\ Len(outs) >= 1) =>
        LET body == DisplayBody(ensure_text(value))
        IN  /\ Len(outs[1]) <= 253
            /\ \A i \in DOMAIN outs[1] : outs[1][i] \in Whitelist
            /\ outs[1] = IF Len(body) > 250
                         THEN SubSeq(body, 1, 250) \o <<".", ".", ".">>
                         ELSE body

\* A cleaned text of 251 characters has been cut to 250 and marked.
C9_Witness ==
    /\ phase = "display"
    /\ Len(outs) >= 1
    /\ Len(DisplayBody(ensure_text(value))) = 251
    /\ Len(outs[1]) = 253
    /\ SubSeq(outs[1], 251, 253) = <<".", ".", ".">>

\* The ASCII characters.
AsciiChars ==
    Whitelist \cup
    {"\t", "\n", "\r", "#", "$", "%", "&", "<", ">", "@", "[", "]", "\\",
     "{", "}", "|"}

\* C10: both cleaners return the empty text for None, for the empty string
\* and for the empty list, and return a text (they do not raise) for every
\* string, list, dict and other value.
C10_CleanersTotal ==
    (phase \in {"prompt", "display"} /\ Len(outs) >= 1) =>
        /\ outs[1] \in Seq(AsciiChars)
        /\ value \in {PyNone, PyStr(<<>>), PyList(<<>>)} => outs[1] = <<>>

\* None has been cleaned for display to the empty text, and so has a dict
\* that json.dumps cannot serialize to a text that is not empty.
C10_Witness ==
    /\ phase = "display"
    /\ Len(outs) >= 1
    /\ \/ value = PyNone /\ outs[1] = <<>>
       \/ value.tag = "dict" /\ ~Serializable(value) /\ outs[1] # <<>>

(***************************************************************************)
(* The endpoint's claims, checked under SpecEndpoint                       *)
(***************************************************************************)
Responded == phase = "endpoint" /\ req.pc = "responded"

\* The chat API has answered the request with the text t.
ChatAnswered(t) == req.chat = Return(PyStr(t))

\* Some "{" of t is followed later by a "}".
BraceThenBrace(t) ==
    \E i \in Positions(t, "{") : \E j \in Positions(t, "}") : i < j

\* The text of t from its first "{" to its last "}".
FirstToLast(t) == SubSeq(t, MinOf(Positions(t, "{")), MaxOf(Positions(t, "}")))

ApiCalls(api) == {i \in DOMAIN calls : calls[i].api = api}

\* C6: a chat answer with no "{" followed later by "}" raises the ValueError
\* "Model did not return valid JSON."; an answer whose text from the first
\* "{" to the last "}" is not JSON raises JSONDecodeError; in both cases the
\* request is answered 400 with the error's text, the chat API has been
\* called once and the image API not at all.
C6_ExtractionFailuresAre400 ==
    \A t \in ChatContents :
        (Responded /\ ChatAnswered(t)) =>
            LET failed ==
                    IF ~BraceThenBrace(t)
                    THEN Raise("ValueError", "Model did not return valid JSON.")
                    ELSE json_loads(FirstToLast(t))
            IN  failed.tag = "raise" =>
                    /\ req.phase1.tag = "raise"
                    /\ req.phase1.exc = failed.exc
                    /\ ~BraceThenBrace(t) => req.phase1.msg = failed.msg
                    /\ BraceThenBrace(t) => req.phase1.exc = "JSONDecodeError"
                    /\ req.response = Response(400, [error |-> req.phase1.msg])
                    /\ Cardinality(ApiCalls("chat")) = 1
                    /\ ApiCalls("image") = {}

\* A request whose chat answer held malformed JSON between its braces has
\* been answered 400.
C6_Witness ==
    /\ Responded
    /\ \E t \in ChatContents : ChatAnswered(t) /\ BraceThenBrace(t)
    /\ req.phase1.tag = "raise"
    /\ req.phase1.exc = "JSONDecodeError"
    /\ req.response.status = 400

(***************************************************************************)
(* The cleaners on the specification's examples, checked under SpecClean   *)
(***************************************************************************)
ScenarioCCleaned ==
    phase = "display" /\ value = PyStr(scenario_c_text) /\ Len(outs) >= 1

\* C11 as stated: display cleaning of the scenario's text returns
\* "Area = pi*r^2 (+/-5%)", a text of at most 250 characters.
C11_ScenarioCWithPi ==
    ScenarioCCleaned =>
        /\ outs[1] = <<"A","r","e","a"," ","="," ","p","i","*","r","^","2"," ","(","+","/","-","5","%",")">>
        /\ Len(outs[1]) <= 250

\* C11: display cleaning of the scenario's text returns
\* "Area = *r^2 (+/-5 )", a text of at most 250 characters: the pi and the
\* percent sign, which the table does not map and the whitelist does not
\* hold, each leave a space.
C11_ScenarioCAsCleaned ==
    ScenarioCCleaned =>
        /\ outs[1] = <<"A","r","e","a"," ","="," ","*","r","^","2"," ","(","+","/","-","5"," ",")">>
        /\ Len(outs[1]) <= 250

\* The scenario's text has been cleaned for display.
C11_Witness ==
    /\ ScenarioCCleaned
    /\ "PI" \in Range(value.val)
    /\ "PI" \notin Range(outs[1])

\* The glyphs the specification lists for the prompt cleaner.
ListedGlyphs ==
    {"MIDDOT", "TIMES", "LDQUO", "RDQUO", "LSQUO", "RSQUO", "ENDASH", "EMDASH",
     "BULLET"}

\* C12: in the prompt cleaner's output every listed glyph of the text is
\* replaced in its place by a text of ASCII characters that is not empty, and
\* only the other characters that are not ASCII are dropped: of a text
\* without white space, every ASCII character is kept in its place and every
\* listed glyph gives at least one character.
C12_ListedGlyphsTranslated ==
    (phase = "prompt" /\ Len(outs) >= 1 /\ value.tag = "str") =>
        LET t == value.val
        IN  (\A i \in DOMAIN t : t[i] \notin WhiteSpace) =>
                Len(outs[1]) >=
                    Cardinality({i \in DOMAIN t : IsAscii(t[i]) \/ t[i] \in ListedGlyphs})

(***************************************************************************)
(* The claims on generate_equation_facts, checked under SpecPhase1         *)
(***************************************************************************)
\* The lens of the argument, as the four configured lenses and their
\* aliases name it.
ArgLens(obj) ==
    CASE obj.lens_mode = PyStr(physicist) -> physicist
      [] obj.lens_mode = PyStr(biologist) -> biologist
      [] obj.lens_mode = PyStr(artist)    -> artist
      [] OTHER                            -> mathematician

ImageGiven(obj) == obj.image_url # PyNone /\ obj.image_url.val # <<>>

\* C13: the prompt sent for a non-empty object name is the template of the
\* argument's lens, with the trimmed object name in the place of {object},
\* the image reference, or "none" when it is absent or empty, in the place
\* of {image_url}, and the lens's example block in the place of {example};
\* for the object "bottle" and the lens "math" it is the mathematician
\* template with "bottle" in it.
C13_PromptFromTemplate ==
    (phase = "phase1" /\ calls # <<>>) =>
        LET obj      == req.obj
            config   == PHASE1_CONFIG[ArgLens(obj)]
            image    == IF ImageGiven(obj) THEN obj.image_url.val ELSE <<"n", "o", "n", "e">>
            name     == Strip(obj.object.val)
            prompt   == calls[1].user
        IN  /\ Len(calls) = 1
            /\ prompt = <<Pieces(config.template)[1]>> \o name
                        \o <<Pieces(config.template)[2]>> \o image
                        \o <<Pieces(config.template)[3], config.example,
                             Pieces(config.template)[4]>>
            /\ (obj.object = PyStr(bottle) /\ obj.lens_mode = PyStr(math)) =>
                   /\ prompt[1] = "PHASE1_PROMPT[1]"
                   /\ SubSeq(prompt, 2, 1 + Len(bottle)) = bottle

\* The prompt for "bottle" under the lens "math" has been sent without an
\* image reference.
C13_Witness ==
    /\ phase = "phase1"
    /\ req.obj.object = PyStr(bottle)
    /\ req.obj.lens_mode = PyStr(math)
    /\ req.obj.image_url = PyNone
    /\ Len(calls) = 1
    /\ Find(calls[1].user, <<"n", "o", "n", "e">>) > 0

\* The object name of the argument is absent or empty after trimming.
NoObjectName(obj) ==
    \/ obj.object = PyNone
    \/ \A i \in DOMAIN obj.object.val : obj.object.val[i] \in WhiteSpace

\* C14: called with an object name that is absent or empty after trimming,
\* generate_equation_facts raises ValueError "Object name is required for
\* lens generation." and makes no call of the chat API.
C14_NoNameNoCall ==
    (phase = "phase1" /\ NoObjectName(req.obj)) =>
        /\ calls = <<>>
        /\ req.pc # "chat"
        /\ req.pc = "returned" =>
               req.result = Raise("ValueError", "Object name is required for lens generation.")

\* The call with a name of white space only has returned its error.
C14_Witness ==
    /\ phase = "phase1"
    /\ req.obj.object = PyStr(<<" ", "\t">>)
    /\ req.pc = "returned"
    /\ req.result.tag = "raise"
    /\ calls = <<>>

(***************************************************************************)
(* The endpoint's claims on its inputs, checked under SpecEndpoint         *)
(***************************************************************************)
\* The payload gives no label: neither "label" nor "object", or a label of
\* white space only.
LabelMissing(payload) ==
    \/ payload.label = PyNone /\ payload.object = PyNone
    \/ payload.label # PyNone /\ payload.label.val # <<>>
       /\ \A i \in DOMAIN payload.label.val : payload.label.val[i] \in WhiteSpace

EncodedPart(t) ==
    LET commas == Positions(t, ",")
    IN  IF commas = {} THEN t ELSE SubSeq(t, MinOf(commas) + 1, Len(t))

\* The text is not base64: it holds a character that is neither a base64
\* digit nor "=", or an "=" before a digit, or a last group of one digit, or
\* a last group of two or three digits with too few "=".
NotBase64(t) ==
    LET digits == {i \in DOMAIN t : t[i] \in Base64Chars}
        pads   == {i \in DOMAIN t : t[i] = "="}
        over   == Cardinality(digits) % 4
    IN  \/ \E i \in DOMAIN t : i \notin digits \cup pads
        \/ \E i \in pads : \E j \in digits : i < j
        \/ over = 1
        \/ over = 2 /\ Cardinality(pads) < 2
        \/ over = 3 /\ Cardinality(pads) < 1

\* The image payload is missing, empty or not base64.
BadImage(payload) ==
    \/ payload.imageBase64 = PyNone
    \/ payload.imageBase64.val = <<>>
    \/ NotBase64(EncodedPart(payload.imageBase64.val))

\* C16: a request whose image payload is missing, empty or not valid base64
\* is answered 400 and has no effect: no call of the chat API or of the image
\* API is made and no file is written.
C16_BadImageNoEffect ==
    (phase = "endpoint" /\ BadImage(req.payload)) =>
        /\ calls = <<>>
        /\ files \in InitialFiles
        /\ req.pc \in {"received", "validated", "responded"}
        /\ Responded => req.response.status = 400

\* A request whose image payload is not base64 has been answered 400, and
\* no file has been written.
C16_Witness ==
    /\ Responded
    /\ req.payload.imageBase64 = PyStr(<<"Q", "U", "=", "D">>)
    /\ req.response = Response(400, [error |-> "Invalid base64 image data."])
    /\ files \in InitialFiles

\* The lens of the request is the math lens: "math", "mathematician", or
\* absent or unrecognized and so defaulted.
MathLensAsked(payload) ==
    payload.lensMode \in {PyNone, PyStr(math), PyStr(mathematician), PyStr(eco)}

ImageCalls == SelectSeq(calls, LAMBDA c : c.api = "image")

\* C17: the instruction sent to the image API for a request of the math lens
\* is the one for a glowing schematic on a transparent background that is
\* not a photo, and for a request of any other lens the one to keep the
\* photo realistic and overlay annotations.
C17_MathLensSchematic ==
    (phase = "endpoint" /\ ImageCalls # <<>>) =>
        ImageCalls[1].contents[1].instruction =
            IF MathLensAsked(req.payload)
            THEN "glowing schematic, transparent background, not a photo"
            ELSE "keep the photo realistic, overlay annotations"

(***************************************************************************)
(* The claims on the overlay step, checked under SpecEndpoint              *)
(***************************************************************************)
\* The image API has answered the request with parts.
ImageAnswered == Responded /\ req.image.tag = "return"

\* The first part, in the order of the response, that has inline data.
FirstInline(parts) ==
    parts[CHOOSE i \in DOMAIN parts :
              /\ parts[i].inline_data # "none"
              /\ \A j \in 1..(i - 1) : parts[j].inline_data = "none"]

NoInline(parts) == \A i \in DOMAIN parts : parts[i].inline_data = "none"

OutputPath == outputs_dir \o <<"/">> \o req.label \o <<"_">> \o req.lens_mode \o dot_png

\* generate_vertex_overlay has returned the path of the overlay and the
\* overlay is at its output path.
OverlayStored ==
    /\ ImageAnswered
    /\ ~NoInline(req.image.val)
    /\ req.overlay_path # PyNone
    /\ OutputPath \in DOMAIN files

C19_OverlayFailuresAre500 ==
    ImageAnswered =>
        /\ NoInline(req.image.val) =>
               /\ req.overlay_path = PyNone
               /\ \A p \in DOMAIN files \ {req.image_path} :
                      p \in DOMAIN StaleOutputs /\ files[p] = StaleOutputs[p]
               /\ req.response.status = 500
        /\ OutputPath \notin DOMAIN files => req.response.status = 500
        /\ req.response.status = 200 =>
               /\ ~NoInline(req.image.val)
               /\ req.response.body.annotatedImageBase64 =
                      <<"BASE64", [image |-> FirstInline(req.image.val).inline_data,
                                   mode |-> "RGBA", background |-> FALSE]>>

\* A response without inline data has been answered 500 while the overlay
\* of an earlier request lies at the output path.
C19_Witness ==
    /\ ImageAnswered
    /\ req.image.val = <<[inline_data |-> "none"]>>
    /\ OutputPath \in DOMAIN files
    /\ files[OutputPath].image = "stale"
    /\ req.response.status = 500

\* C20: the overlay is made from the first part of the response that has
\* inline data: the parts without inline data before it are passed over and
\* no later part is saved in its place.
C20_FirstInlinePartIsOverlay ==
    OverlayStored =>
        /\ req.overlay_path = PyStr(OutputPath)
        /\ files[OutputPath].image = FirstInline(req.image.val).inline_data

\* Of a response of two images, the first is the overlay.
C20_Witness ==
    /\ OverlayStored
    /\ req.image.val = <<[inline_data |-> "imageB"], [inline_data |-> "imageA"]>>
    /\ files[OutputPath].image = "imageB"

(***************************************************************************)
(* The claims on the request as a whole, checked under SpecEndpoint        *)
(***************************************************************************)
\* The handler's try block has raised: one of its except clauses has
\* answered the request.
ExceptionCaught == Responded /\ req.raised.tag = "raise"

\* The exception is the input error of the facts step: no object name.
InputError ==
    req.raised = Raise("ValueError", "Object name is required for lens generation.")

\* The exception is a model-content error: the chat API answered with a
\* text and no JSON object could be extracted from it.
ModelContentError ==
    /\ req.chat.tag = "return"
    /\ req.chat.val.tag = "str"
    /\ req.phase1.tag = "raise"

\* C21: every exception raised in the try block that is neither an input
\* error nor a model-content error is answered 500 with the error "Failed
\* to process object." and the exception's message as details, whatever
\* its class.
C21_UnexpectedErrorsAre500 ==
    (ExceptionCaught /\ ~InputError /\ ~ModelContentError) =>
        req.response = Response(500, [error   |-> "Failed to process object.",
                                      details |-> req.raised.msg])

\* C22: there are no retries.  At every point of a request, on failure paths
\* too, the chat API has been called at most once and the image API at most
\* once; an exception that reaches the handler ends the request; and the
\* request has its response exactly when it has ended.
C22_NoRetries ==
    phase = "endpoint" =>
        /\ Cardinality(ApiCalls("chat")) <= 1
        /\ Cardinality(ApiCalls("image")) <= 1
        /\ ApiCalls("chat") \cup ApiCalls("image") = DOMAIN calls
        /\ req.raised.tag = "raise" => req.pc = "responded"
        /\ req.pc = "responded" <=> req.response # NoResponse

\* A request has failed after both APIs were called, each once, and has
\* been answered 500.
C22_Witness ==
    /\ ExceptionCaught
    /\ req.image.tag = "raise"
    /\ Cardinality(ApiCalls("chat")) = 1
    /\ Cardinality(ApiCalls("image")) = 1
    /\ req.response.status = 500

\* C23: the steps of a request form one ordered chain.  A chat call is made
\* only when the upload has been written; an image call is made only after
\* the one chat call, when that call has returned and a JSON object has been
\* parsed from its answer, and never when the facts step failed; and the
\* request is answered only when every call made has returned.
C23_OrderedCallChain ==
    phase = "endpoint" =>
        /\ ApiCalls("chat") # {} =>
               /\ req.image_path # <<>>
               /\ req.image_path \in DOMAIN files
               /\ calls[1].api = "chat"
        /\ ApiCalls("image") # {} =>
               /\ ApiCalls("chat") = {1}
               /\ ApiCalls("image") = {2}
               /\ req.chat.tag = "return"
               /\ req.phase1.tag = "return"
               /\ req.phase1.val.tag = "dict"
        /\ req.phase1.tag = "raise" => ApiCalls("image") = {}
        /\ Responded =>
               /\ ApiCalls("chat") # {} => req.chat.tag # "pending"
               /\ ApiCalls("image") # {} => req.image.tag # "pending"

\* A request has been answered 200 after the chat call and then the image
\* call, both returned.
C23_Witness ==
    /\ Responded
    /\ req.response.status = 200
    /\ Len(calls) = 2
    /\ calls[1].api = "chat"
    /\ calls[2].api = "image"
    /\ req.chat.tag = "return"
    /\ req.image.tag = "return"

\* The math glyphs that the display cleaner has a translation for and that
\* the prompt cleaner does not turn into ASCII.
MathGlyphs ==
    {"SUP2", "SUP3", "DIVIDE", "SQRT", "THETA", "DEGREE", "PLUSMINUS", "APPROX",
     "MIDDOT", "TIMES"}

WithoutGlyphs(e) == SelectSeq(e, LAMBDA c : c \notin MathGlyphs)

\* The facts as the chat API gave them, before any cleaning.
FactsGiven == extract_facts(req.chat.val.val)

\* The chat API has just given facts whose explanation is a text.
ExplanationGiven ==
    /\ phase = "endpoint"
    /\ req.pc = "facts"
    /\ DictHas(FactsGiven.val, k_explanation)
    /\ DictItem(FactsGiven.val, k_explanation).tag = "str"

\* C28: the explanation is cleaned for the prompt before it is cleaned for
\* display.  No math glyph of the model's explanation is left after the
\* first pass; the explanation kept for the response is the one the request
\* would keep had the glyphs not been in the text at all; none of the
\* characters "^", "*", "~" and "+" of the display translations is in it
\* unless the model's text held it or held a character reference; and a
\* request answered 200 returns that explanation.
C28_GlyphsLostBeforeDisplay ==
    /\ ExplanationGiven =>
        LET e == DictItem(FactsGiven.val, k_explanation).val
        IN  /\ \A c \in Range(DictItem(req.phase1.val, k_explanation).val) :
                   c \notin MathGlyphs
            /\ req.explanation =
                   clean_explanation(PyStr(clean_text_for_prompt(PyStr(WithoutGlyphs(e)))))
            /\ "&" \notin Range(e) =>
                   \A c \in {"^", "*", "~", "+"} :
                       c \in Range(req.explanation) => c \in Range(e)
    /\ (Responded /\ req.response.status = 200) =>
           req.response.body.explanation = req.explanation

\* A request whose explanation held each of eight math glyphs has been
\* answered 200 with an explanation that holds none of their translations.
C28_Witness ==
    /\ Responded
    /\ req.response.status = 200
    /\ req.response.body.explanation =
           <<"r"," ","h"," ","a","b"," ","c"," ","1"," ","d","e">>
    /\ MathGlyphs \ {"MIDDOT", "DEGREE"} \subseteq Range(req.chat.val.val)

(***************************************************************************)
(* The prompt cleaner on the letter x, checked under SpecClean             *)
(***************************************************************************)
\* The text with each letter "x" and "X" replaced by the multiplication
\* sign.
XAsTimes(t) == [i \in DOMAIN t |-> IF t[i] \in {"x", "X"} THEN "TIMES" ELSE t[i]]

\* C25: the prompt cleaner returns its text with every letter "x" and "X"
\* replaced by the multiplication sign: of a text of ASCII characters
\* without white space, nothing else is changed, and "box" gives "bo" and
\* the multiplication sign.
C25_XBecomesTimes ==
    (phase = "prompt" /\ Len(outs) >= 1 /\ value.tag = "str") =>
        /\ value.val = <<"b","o","x">> => outs[1] = <<"b","o","TIMES">>
        /\ (\A i \in DOMAIN value.val :
                IsAscii(value.val[i]) /\ value.val[i] \notin WhiteSpace) =>
               outs[1] = XAsTimes(value.val)

(***************************************************************************)
(* The claims on requests served at once, checked under SpecConcurrent     *)
(***************************************************************************)
\* C24: two requests served at once whose client identifiers differ never
\* write the same file, neither in uploads/ nor in outputs/.
C24_WritesDoNotCollide ==
    (phase = "concurrent"
        /\ req[1].payload.clientObjectId # req[2].payload.clientObjectId) =>
        req[1].wrote \cap req[2].wrote = {}

\* C26: under every interleaving of two requests, the annotatedImageBase64
\* of a request answered 200 is the encoding of the image the image API
\* returned to that request, converted and without its background: never
\* the image of the other request and never a file that is not whole.
C26_ResponseCarriesOwnOverlay ==
    phase = "concurrent" =>
        \A i \in Requests :
            (req[i].pc = "responded" /\ req[i].response.status = 200) =>
                req[i].response.body.annotatedImageBase64 =
                    <<"BASE64", remove(convert_rgba(req[i].image.val))>>

\* C27: every file a request writes lies directly in the uploads directory
\* or in the outputs directory, whatever the label and the client identifier.
C27_WritesStayInDirectories ==
    phase = "concurrent" =>
        \A i \in Requests : \A path \in req[i].wrote :
            DirectoryOf(path) \in {<<<<"CWD">>, uploads>>, <<<<"CWD">>, outputs_dir>>}

(***************************************************************************)
(* The lens of a request, checked under SpecLensUse                        *)
(***************************************************************************)
\* C29: resolve_lens_mode is idempotent: resolving the lens it returned
\* returns that lens again.  So in a request the lens generate_equation_facts
\* resolves from the endpoint's lens is the endpoint's lens: the system
\* prompt and the template of the chat request, the lens passed to the
\* overlay step and the lensMode of the response are all of one lens.
C29_ResolveIdempotent ==
    /\ (phase = "lens" /\ lens_mode # Unset) =>
           resolve_lens_mode(PyStr(lens_mode)) = lens_mode
    /\ (phase = "endpoint" /\ req.pc # "received") =>
           /\ resolve_lens_mode(PyStr(req.lens_mode)) = req.lens_mode
           /\ ApiCalls("chat") # {} =>
                  /\ calls[1].system = LENS_PROMPTS[req.lens_mode]
                  /\ calls[1].user[1] = Pieces(PHASE1_CONFIG[req.lens_mode].template)[1]
           /\ ApiCalls("image") # {} =>
                  calls[2].contents[1].instruction = lens_prompt(req.lens_mode)
           /\ req.overlay_path # PyNone =>
                  req.overlay_path = PyStr(output_path(req.label, req.lens_mode))
           /\ req.response.status = 200 =>
                  req.response.body.lensMode = req.lens_mode

\* A request that asked for "Physics " has been answered 200 with the lens
\* physicist, after a chat request with the physicist's prompts.
C29_Witness ==
    /\ Responded
    /\ req.payload.lensMode = PyStr(<<"P","h","y","s","i","c","s"," ">>)
    /\ req.response.status = 200
    /\ req.response.body.lensMode = physicist
    /\ calls[1].system = "PHYSICIST_PROMPT"
    /\ calls[1].user[1] = "PHASE1_PROMPT_PHYSICS[1]"

====
